---- MODULE Spec2Model ----
(***************************************************************************)
(* Model of the reference fetch orchestrator                               *)
(* (UltraWikiDomain/tools/fetch_reference_pages.py) together with the      *)
(* helpers it uses: slugify (jina_scraping.py), the CitationStore file,    *)
(* its temporary file and the directory of page files.  The two fetch      *)
(* engines are the environment: every call either fails or returns a page. *)
(* Further sections: two invocations running at the same time, and the     *)
(* round-robin choice of an endpoint in reproduce_local/local_models.py.    *)
(***************************************************************************)
EXTENDS Integers, Sequences, FiniteSets, TLC

\* ------------------------------------------------------------------ bounds
MaxRecords == 2        \* lines of the CitationStore
MaxRuns == 2           \* invocations of main() in one behaviour
MaxThreads == 2        \* threads calling into local_models.py
MaxCalls == 4          \* calls of each of get_oss_config, get_embedding_config
MaxTextLines == 11     \* lines of text in a content handed to is_low_quality
MaxBlankLines == 2     \* blank lines in such a content
MaxRefLines == 3       \* lines handed to group_reference_entries
MaxDocLines == 4       \* lines of a document handed to parse_references_block
MaxEntries == 3        \* entries handed to build_reference_items and deduplicated
MaxExtractions == 3    \* invocations of the extraction step in one behaviour
MaxRetries == 3        \* the largest max_retry a GoliathTool is built with

\* ------------------------------------------------------- program constants
max_filter_retry == 3  \* fetch_reference_pages.py:258
DEFAULT_GOLIATH_MAX_RETRY == 2  \* goliath.py:14
MinLines == 10         \* fetch_reference_pages.py:128
max_length == 80       \* jina_scraping.py:57

\* ------------------------------------------------------------------ values
NoUrl == [k |-> "none", i |-> 0]
Url(i) == [k |-> "url", i |-> i]
ArchiveUrl(i) == [k |-> "archive", i |-> i]

\* Titles are strings, modelled as sequences of one-character strings.
Titles == << <<"a", "_", "b">>, <<"a", " ", "b">>, <<"c", "!">> >>

\* ----------------------------------------------------------------- slugify
Whitespace == {" "}
SlugChars == {"a", "b", "c", "p", "g", "e", "-", " "}

RECURSIVE LStrip(_, _)
LStrip(s, cs) ==
    IF s # <<>> /\ Head(s) \in cs THEN LStrip(Tail(s), cs) ELSE s

RECURSIVE RStrip(_, _)
RStrip(s, cs) ==
    IF s # <<>> /\ s[Len(s)] \in cs THEN RStrip(SubSeq(s, 1, Len(s) - 1), cs) ELSE s

Strip(s, cs) == RStrip(LStrip(s, cs), cs)

\* re.sub(<run of characters of cs>, ' ', s)
RECURSIVE CollapseRuns(_, _)
CollapseRuns(s, cs) ==
    IF s = <<>> THEN <<>>
    ELSE IF Head(s) \in cs
         THEN <<" ">> \o CollapseRuns(LStrip(s, cs), cs)
         ELSE <<Head(s)>> \o CollapseRuns(Tail(s), cs)

MapChar(s, from, to) == [n \in 1..Len(s) |-> IF s[n] = from THEN to ELSE s[n]]

IsSlugChar(c) == c \in SlugChars

slugify(text) ==
    LET t1 == Strip(text, Whitespace)
        t2 == CollapseRuns(t1, Whitespace)
        t3 == MapChar(t2, "_", " ")
        t4 == SelectSeq(t3, IsSlugChar)
        t5 == CollapseRuns(t4, {" "})
        t6 == Strip(t5, {" ", "-"})
        t7 == IF t6 = <<>> THEN <<"p", "a", "g", "e">> ELSE t6
    IN  IF Len(t7) > max_length
        THEN RStrip(SubSeq(t7, 1, max_length), {"-"})
        ELSE t7

\* ------------------------------------------------------------ quality gate
\* A page content is a sequence of lines, a line a sequence of tokens; a
\* token is a word, a blank " " or one of the error-page signatures.
patterns == << "404 | Fox News", "It seems you clicked on a bad link",
               "Something has gone wrong", "404 Not Found", "Page Not Found" >>

LineContains(l, p) == \E n \in 1..Len(l) : l[n] = p
ContentContains(content, p) == \E n \in 1..Len(content) : LineContains(content[n], p)
\* blank lines counted too
IsNonBlankAny(l) == TRUE

IsNonBlank(l) == Strip(l, Whitespace) # <<>>

RECURSIVE FirstPattern(_, _)
FirstPattern(content, n) ==
    IF n > Len(patterns) THEN 0
    ELSE IF ContentContains(content, patterns[n]) THEN n
    ELSE FirstPattern(content, n + 1)

\* returns [filt, reason]; the reason '' is <<>>
is_low_quality(content) ==
    IF content = <<>> THEN [filt |-> TRUE, reason |-> <<"empty_content">>]
    ELSE LET m == FirstPattern(content, 1) IN
         IF m # 0 THEN [filt |-> TRUE, reason |-> <<"match_pattern:", patterns[m]>>]
         ELSE IF Len(SelectSeq(content, IsNonBlank)) < MinLines
              THEN [filt |-> TRUE, reason |-> <<"line_count<", "10">>]
              ELSE [filt |-> FALSE, reason |-> <<>>]

Lines(n) == [k \in 1..n |-> <<"text">>]
GoodBody == Lines(MinLines)
ShortBody == Lines(MinLines - 1) \o << <<" ">> >>
NotFoundBody == << <<"404 Not Found">> >> \o Lines(MinLines)
Bodies == {GoodBody, ShortBody, NotFoundBody}

\* content.rstrip(): trailing blank lines and trailing blanks of the last line go
RECURSIVE rstrip(_)
rstrip(content) ==
    IF content = <<>> THEN <<>>
    ELSE LET last == RStrip(content[Len(content)], Whitespace) IN
         IF last = <<>> THEN rstrip(SubSeq(content, 1, Len(content) - 1))
         ELSE SubSeq(content, 1, Len(content) - 1) \o <<last>>

\* ------------------------------------------------- records and store lines
\* A dict of the in-memory list refs.  kind "ref": a citation record;
\* kind "err": the {'error', 'raw'} dict load_references makes of a line that
\* is not JSON.  Absent keys: NoUrl, <<>>.
RefDict(i, title, hasArchive) ==
    [ kind |-> "ref", title |-> title, url |-> Url(i),
      archive_url |-> IF hasArchive THEN ArchiveUrl(i) ELSE NoUrl,
      scraped |-> FALSE, fetcher_used |-> <<>>, filter_reason |-> <<>>,
      attempt_log |-> <<>>, raw |-> 0 ]

ErrDict(raw) ==
    [ kind |-> "err", title |-> <<>>, url |-> NoUrl, archive_url |-> NoUrl,
      scraped |-> FALSE, fetcher_used |-> <<>>, filter_reason |-> <<>>,
      attempt_log |-> <<>>, raw |-> raw ]

\* A line of the store file: a JSON object, a blank line, or text that is
\* not JSON (raw identifies the text).
JsonLine(d) == [form |-> "json", obj |-> d]
BlankLine == [form |-> "blank", obj |-> ErrDict(0)]
GarbageLine(raw) == [form |-> "garbage", obj |-> ErrDict(raw)]

json_dumps(d) == JsonLine(d)

json_loads(line) == IF line.form = "json" THEN line.obj ELSE ErrDict(line.obj.raw)

\* malformed lines dropped like blank ones
RECURSIVE load_referencesDropping(_)
load_referencesDropping(lines) ==
    IF lines = <<>> THEN <<>>
    ELSE IF Head(lines).form # "json" THEN load_referencesDropping(Tail(lines))
    ELSE <<json_loads(Head(lines))>> \o load_referencesDropping(Tail(lines))

RECURSIVE load_references(_)
load_references(lines) ==
    IF lines = <<>> THEN <<>>
    ELSE IF Head(lines).form = "blank" THEN load_references(Tail(lines))
    ELSE <<json_loads(Head(lines))>> \o load_references(Tail(lines))

\* what save_references writes for the list r
Serialize(r) == [n \in 1..Len(r) |-> json_dumps(r[n])]

\* ------------------------------------------------------------- fetch chain
Step(label, engine, url) == [label |-> label, engine |-> engine, url |-> url]

\* the order the docstring of fetch_with_order gives
sequenceDocstring(ref) ==
    IF ref.archive_url # NoUrl
    THEN << Step("goliath_archive", "goliath", ref.archive_url),
            Step("jina_main", "jina", ref.url),
            Step("goliath_main", "goliath", ref.url) >>
    ELSE << Step("jina_main", "jina", ref.url),
            Step("goliath_main", "goliath", ref.url) >>

sequence(ref) ==
    IF ref.archive_url # NoUrl
    THEN << Step("jina_archive", "jina", ref.archive_url),
            Step("goliath_archive", "goliath", ref.archive_url),
            Step("jina_main", "jina", ref.url),
            Step("goliath_main", "goliath", ref.url) >>
    ELSE << Step("jina_main", "jina", ref.url),
            Step("goliath_main", "goliath", ref.url) >>

\* the labels of the two archive steps exchanged
used_labelSwapped(step_label) ==
    CASE step_label = "goliath_archive" -> "jina(archive)"
      [] step_label = "jina_archive" -> "goliath(archive)"
      [] step_label = "jina_main" -> "jina"
      [] step_label = "goliath_main" -> "goliath"
      [] OTHER -> step_label

used_label(step_label) ==
    CASE step_label = "goliath_archive" -> "goliath(archive)"
      [] step_label = "jina_archive" -> "jina(archive)"
      [] step_label = "jina_main" -> "jina"
      [] step_label = "goliath_main" -> "goliath"
      [] OTHER -> step_label

Attempt(step, success, error) ==
    [ step |-> step.label, engine |-> step.engine, url |-> step.url,
      success |-> success, error |-> error ]

\* the dicts appended to aggregate_attempt_log for one walk
LogEntries(round, atts) ==
    [ n \in 1..Len(atts) |->
        [ round |-> round, step |-> atts[n].step, engine |-> atts[n].engine,
          url |-> atts[n].url, success |-> atts[n].success, error |-> atts[n].error ] ]

\* what an engine returns for a url when it succeeds, after normalize()
Norm(step, body) ==
    [ title |-> <<"e">>,
      content |-> [engine |-> step.engine, url |-> step.url, body |-> body] ]
NoNorm == [ title |-> <<>>, content |-> [engine |-> "none", url |-> NoUrl, body |-> <<>>] ]

NoRet == [norm |-> NoNorm, used |-> ""]

\* ---------------------------------------------------------------- page files
Page(title, content) ==
    [title |-> title, content |-> [content EXCEPT !.body = rstrip(@)]]

PagePath(reference, fetched) ==
    LET title == IF reference.title # <<>> THEN reference.title
                 ELSE IF fetched.title # <<>> THEN fetched.title
                 ELSE <<"U", "n", "t", "i", "t", "l", "e", "d">>
    IN  slugify(title)

\* no page written
save_markdownNothing(dir, reference, fetched, skip_exists) == dir

\* the output directory after save_markdown(reference, fetched, ..., skip_exists)
save_markdown(dir, reference, fetched, skip_exists) ==
    LET title == IF reference.title # <<>> THEN reference.title
                 ELSE IF fetched.title # <<>> THEN fetched.title
                 ELSE <<"U", "n", "t", "i", "t", "l", "e", "d">>
        path == slugify(title)
    IN  IF skip_exists /\ path \in DOMAIN dir
        THEN dir
        ELSE [ x \in DOMAIN dir \cup {path} |->
                 IF x = path THEN Page(title, fetched.content) ELSE dir[x] ]

\* -------------------------------------------------------------------- state
VARIABLES
    store,                  \* disk: the lines of the CitationStore file
    tmp,                    \* disk: the lines of the '.tmp' file, when it exists
    files,                  \* disk: the output directory, slug -> page
    pc,                     \* where main() is: "idle" is no process running
    args,                   \* the command line: force, skip_exists, record_attempts
    refs,                   \* main's list refs
    start,                  \* main's start
    idx,                    \* main's loop variable (1-based line number)
    end,                    \* main's end
    counters,               \* main's total, success, failed
    filter_attempts,        \* main's filter_attempts
    aggregate_attempt_log,  \* main's aggregate_attempt_log
    attempts,               \* fetch_with_order's attempts
    ret,                    \* what fetch_with_order returned: norm, used
    runs,                   \* history: invocations started
    runStore,               \* history: the store file when this invocation started
    runCalls,               \* history: this invocation has called an engine
    recCalls,               \* history: engine calls made for the current record
    walks,                  \* history: walks of the chain started for the current record
    recFiles,               \* history: the output directory when the current record began
    outcome,                \* history: how each record's processing ended in this invocation
    persisted,              \* history: the records whose rewrite of the store completed
    calls,                  \* history: with record_attempts, the current record's engine calls
    cfs,                    \* two invocations at once: the directory of the store file
    cproc,                  \* two invocations at once: each invocation's main()
    env,                    \* local_models: OSS_PORTS and EMBEDDING_PORTS
    counter,                \* local_models: _oss_counter and _embedding_counter
    lock,                   \* local_models: the thread holding _oss_lock, _embedding_lock
    thread,                 \* local_models: each thread's position and locals
    observed,               \* history: the counter values read to select a port, in order
    content,                \* quality gate: the content handed to is_low_quality
    verdict,                \* quality gate: what is_low_quality returned
    markdown_text,          \* extract_references: the lines of the document
    ref_lines,              \* extract_references: the lines parse_references_block returned
    ref_entries,            \* extract_references: the entries handed to build_reference_items
    items,                  \* extract_references: the records it returned, then the deduplicated ones
    jsonl,                  \* extract_references: the file references.jsonl
    extractions,            \* history: for each invocation of the extraction step so far,
                            \* whether the file existed and how many records were scraped
    epc,                    \* extract_references: "idle", or what main() holds: "markdown",
                            \* "lines", "entries", "items", "deduped"
    max_retry,              \* goliath: the GoliathTool's max_retry
    attempt,                \* goliath: retrieve's loop variable
    response_dict,          \* goliath: what retrieve returned
    gattempts,              \* goliath: fetch_with_order's attempts, the engine-B steps of them
    posted,                 \* history: what each requests.post of the current call did
    gpc                     \* goliath: "idle", "loop" (in retrieve), "returned"

disk == <<store, tmp, files>>
locals == <<filter_attempts, aggregate_attempt_log, attempts, ret>>
proc == <<pc, args, refs, start, idx, end, counters, locals>>
hist == <<runs, runStore, runCalls, recCalls, walks, recFiles, outcome, persisted, calls>>
fetch == <<disk, proc, hist>>
\* the state of the other programs and settings this module describes
conc == <<cfs, cproc>>
balance == <<env, counter, lock, thread, observed>>
gate == <<content, verdict>>
extract == <<markdown_text, ref_lines, ref_entries, items, jsonl, extractions, epc>>
client == <<max_retry, attempt, response_dict, gattempts, posted, gpc>>
outside == <<conc, balance, gate, extract, client>>
\* what the actions of each section leave alone
besidesConc == <<fetch, balance, gate, extract, client>>
besidesBalance == <<fetch, conc, gate, extract, client>>
besidesGate == <<fetch, conc, balance, extract, client>>
besidesExtract == <<fetch, conc, balance, gate, client>>
besidesClient == <<fetch, conc, balance, gate, extract>>
vars == <<fetch, outside>>

NoTmp == [exists |-> FALSE, lines |-> <<>>]
NoArgs == [force |-> FALSE, skip_exists |-> FALSE, record_attempts |-> FALSE]
NoCounters == [total |-> 0, success |-> 0, failed |-> 0]
NoEnd == [given |-> FALSE, v |-> 0]
EndAt(v) == [given |-> TRUE, v |-> v]
NoOutcome == [res |-> "none", norm |-> NoNorm, used |-> "", reason |-> <<>>, walks |-> 0]
\* no clamp
MinFirst(a, b) == a

Min(a, b) == IF a < b THEN a ELSE b

\* The store extract_references.py writes: one record per line, scraped false.
\* Record i takes its title from Titles, cyclically from offset k, and every
\* second record has an archive_url.  Offset 2 gives records 1 and 2 the
\* titles "a_b" and "a b", which have the same slug.
FreshStore(k) ==
    [ i \in 1..MaxRecords |->
        JsonLine(RefDict(i, Titles[((i + k) % Len(Titles)) + 1], i % 2 = 0)) ]

TitleOffsets == {0, 2}
FreshStores == { FreshStore(k) : k \in TitleOffsets }

\* A store whose first line is not JSON: load_references keeps it as an error
\* dict, which has no url.
DamagedStore == [FreshStore(0) EXCEPT ![1] = GarbageLine(1)]

\* Stores edited by hand: a blank line before the only record; a record
\* that has an archive_url but no url, a blank line and a second record.
BlankFirstStore == << BlankLine, JsonLine(RefDict(1, Titles[1], FALSE)) >>
NoUrlStore ==
    << JsonLine([RefDict(1, Titles[1], TRUE) EXCEPT !.url = NoUrl]),
       BlankLine,
       JsonLine(RefDict(2, Titles[3], TRUE)) >>
EditedStores == {BlankFirstStore, NoUrlStore, DamagedStore}

\* no invocation of fetch_reference_pages.py running, on one of the stores
InitFetch(stores) ==
    /\ store \in stores
    /\ tmp = NoTmp
    /\ files = <<>>
    /\ pc = "idle"
    /\ args = NoArgs
    /\ refs = <<>>
    /\ start = 0
    /\ idx = 0
    /\ end = 0
    /\ counters = NoCounters
    /\ filter_attempts = 0
    /\ aggregate_attempt_log = <<>>
    /\ attempts = <<>>
    /\ ret = NoRet
    /\ runs = 0
    /\ runStore = store
    /\ runCalls = FALSE
    /\ recCalls = 0
    /\ walks = 0
    /\ recFiles = <<>>
    /\ outcome = [i \in 1..MaxRecords |-> NoOutcome]
    /\ persisted = {}
    /\ calls = <<>>

\* the process is gone: its memory with it
Gone ==
    /\ pc' = "idle"
    /\ args' = NoArgs
    /\ refs' = <<>>
    /\ start' = 0
    /\ idx' = 0
    /\ end' = 0
    /\ counters' = NoCounters
    /\ filter_attempts' = 0
    /\ aggregate_attempt_log' = <<>>
    /\ attempts' = <<>>
    /\ ret' = NoRet

\* ------------------------------------------------------------------ main()
\* lines 134-146 and 238-244: parse the command line, load the store
StartRun(force, skip_exists, record_attempts, start_arg, end_arg) ==
    /\ pc = "idle"
    /\ runs < MaxRuns
    /\ LET r == load_references(store)
           s == IF start_arg >= 1 THEN start_arg ELSE 1
           e == IF end_arg.given THEN end_arg.v ELSE Len(r)
       IN  /\ refs' = r
           /\ start' = s
           /\ idx' = s
           /\ end' = Min(e, Len(r))
    /\ args' = [force |-> force, skip_exists |-> skip_exists,
                record_attempts |-> record_attempts]
    /\ pc' = "for"
    /\ counters' = NoCounters
    /\ runs' = runs + 1
    /\ runStore' = store
    /\ runCalls' = FALSE
    /\ recCalls' = 0
    /\ walks' = 0
    /\ recFiles' = files
    /\ outcome' = [i \in 1..MaxRecords |-> NoOutcome]
    /\ persisted' = {}
    /\ calls' = <<>>
    /\ UNCHANGED <<outside, disk, locals>>

\* line 246: the range is exhausted; lines 325-332 print the summary
Finish ==
    /\ pc = "for"
    /\ idx > end
    /\ Gone
    /\ UNCHANGED <<outside, disk, hist>>

\* the record passed over without being counted
SkipNoUrlUncounted ==
    /\ pc = "for"
    /\ idx <= end
    /\ refs[idx].url = NoUrl
    /\ idx' = idx + 1
    /\ UNCHANGED <<outside, disk, pc, args, refs, start, end, counters, locals, hist>>

\* lines 247-253
SkipNoUrl ==
    /\ pc = "for"
    /\ idx <= end
    /\ refs[idx].url = NoUrl
    /\ counters' = [counters EXCEPT !.total = @ + 1, !.failed = @ + 1]
    /\ idx' = idx + 1
    /\ UNCHANGED <<outside, disk, pc, args, refs, start, end, locals, hist>>

\* the skip condition forgotten
SkipConditionNever(ref, force) == FALSE

\* lines 254-256
SkipCondition(ref, force) == ref.scraped = TRUE /\ ~force

SkipScraped ==
    /\ pc = "for"
    /\ idx <= end
    /\ refs[idx].url # NoUrl
    /\ SkipCondition(refs[idx], args.force)
    /\ counters' = [counters EXCEPT !.total = @ + 1]
    /\ idx' = idx + 1
    /\ UNCHANGED <<outside, disk, pc, args, refs, start, end, locals, hist>>

\* lines 257-262: the record is processed; the first walk starts
BeginRecord ==
    /\ pc = "for"
    /\ idx <= end
    /\ refs[idx].url # NoUrl
    /\ ~SkipCondition(refs[idx], args.force)
    /\ counters' = [counters EXCEPT !.total = @ + 1]
    /\ filter_attempts' = 0
    /\ aggregate_attempt_log' = <<>>
    /\ attempts' = <<>>
    /\ ret' = NoRet
    /\ pc' = "walk"
    /\ recCalls' = 0
    /\ walks' = 1
    /\ recFiles' = files
    /\ calls' = <<>>
    /\ UNCHANGED <<outside, disk, args, refs, start, idx, end, runs, runStore, runCalls, outcome, persisted>>

\* ------------------------------------------------------- fetch_with_order()
\* The step the walk is at: lines 207-213 call the engine of sequence[n].
NextStep == Len(attempts) + 1

\* an engine call and what it returned, as the history keeps it
EngineCall(step, success, error) ==
    [engine |-> step.engine, url |-> step.url, success |-> success, error |-> error]
Called(c) == IF args.record_attempts THEN Append(calls, c) ELSE calls

\* lines 214-229: the engine returned content; the walk ends here
EngineSucceeds(body) ==
    /\ pc = "walk"
    /\ NextStep <= Len(sequence(refs[idx]))
    /\ LET step == sequence(refs[idx])[NextStep] IN
        /\ attempts' = Append(attempts, Attempt(step, TRUE, ""))
        /\ calls' = Called(EngineCall(step, TRUE, ""))
        /\ ret' = [norm |-> Norm(step, body), used |-> used_label(step.label)]
    /\ pc' = "gate"
    /\ recCalls' = recCalls + 1
    /\ runCalls' = TRUE
    /\ UNCHANGED <<outside, disk, args, refs, start, idx, end, counters, filter_attempts,
                   aggregate_attempt_log, runs, runStore, walks, recFiles,
                   outcome, persisted>>

\* lines 230-236: the engine returned an error; the walk goes on to the next
\* step, or returns (None, 'failed', attempts) after the last one
AfterFailure(n, len) == IF n = len THEN "gate" ELSE "walk"

EngineFails ==
    /\ pc = "walk"
    /\ NextStep <= Len(sequence(refs[idx]))
    /\ LET step == sequence(refs[idx])[NextStep] IN
        /\ attempts' = Append(attempts, Attempt(step, FALSE, "error"))
        /\ calls' = Called(EngineCall(step, FALSE, "error"))
        /\ pc' = AfterFailure(NextStep, Len(sequence(refs[idx])))
        /\ ret' = IF pc' = "gate" THEN [norm |-> NoNorm, used |-> "failed"] ELSE ret
    /\ recCalls' = recCalls + 1
    /\ runCalls' = TRUE
    /\ UNCHANGED <<outside, disk, args, refs, start, idx, end, counters, filter_attempts,
                   aggregate_attempt_log, runs, runStore, walks, recFiles,
                   outcome, persisted>>

\* ------------------------------------------- main(): the while loop's body
\* the earlier rounds forgotten
ExtendedLastRound(log, round, atts, record_attempts) ==
    IF record_attempts THEN LogEntries(round, atts) ELSE log

Extended(log, round, atts, record_attempts) ==
    IF record_attempts THEN log \o LogEntries(round, atts) ELSE log

\* A break leaves the while loop.  The loop's variables are not read again
\* before lines 259-263 assign them for the next record, so they are dropped
\* here, and the record's counts of calls and walks with them.
LoopLeft ==
    /\ filter_attempts' = 0
    /\ aggregate_attempt_log' = <<>>
    /\ attempts' = <<>>
    /\ ret' = NoRet
    /\ recCalls' = 0
    /\ walks' = 0

\* a failed record marked as processed
MarkFailedScraped(ref, log, record_attempts) ==
    [ ref EXCEPT !.scraped = TRUE,
                 !.attempt_log = IF record_attempts THEN log ELSE @ ]

\* lines 265-281: the whole chain failed
MarkFailed(ref, log, record_attempts) ==
    IF record_attempts THEN [ref EXCEPT !.attempt_log = log] ELSE ref

ChainFailed ==
    /\ pc = "gate"
    /\ ret.norm = NoNorm
    /\ counters' = [counters EXCEPT !.failed = @ + 1]
    /\ refs' = [refs EXCEPT ![idx] =
                  MarkFailed(@, Extended(aggregate_attempt_log, filter_attempts + 1,
                                         attempts, args.record_attempts),
                             args.record_attempts)]
    /\ pc' = "save"
    /\ outcome' = [outcome EXCEPT ![idx] = [NoOutcome EXCEPT !.res = "failed"]]
    /\ LoopLeft
    /\ UNCHANGED <<outside, disk, args, start, idx, end, runs, runStore, runCalls, recFiles, persisted, calls>>

\* an off-by-one in the cap
RetryAllowedOneMore(n) == n <= max_filter_retry

\* line 298
RetryAllowed(n) == n < max_filter_retry

\* lines 283-300: low quality, rounds left: walk the chain again from the top
LowQualityRetry ==
    /\ pc = "gate"
    /\ ret.norm # NoNorm
    /\ is_low_quality(ret.norm.content.body).filt
    /\ RetryAllowed(filter_attempts + 1)
    /\ aggregate_attempt_log' =
         Extended(aggregate_attempt_log, filter_attempts + 1, attempts, args.record_attempts)
    /\ filter_attempts' = filter_attempts + 1
    /\ attempts' = <<>>
    /\ ret' = NoRet
    /\ pc' = "walk"
    /\ walks' = walks + 1
    /\ UNCHANGED <<outside, disk, args, refs, start, idx, end, counters, runs, runStore, runCalls,
                   recCalls, recFiles, outcome, persisted, calls>>

\* the reason left out
MarkLowQualityNoReason(ref, used, reason, log, record_attempts) ==
    [ ref EXCEPT !.scraped = TRUE,
                 !.fetcher_used = <<used, "(low_quality)">>,
                 !.attempt_log = IF record_attempts THEN log ELSE @ ]

\* lines 301-310
MarkLowQuality(ref, used, reason, log, record_attempts) ==
    [ ref EXCEPT !.scraped = TRUE,
                 !.fetcher_used = IF used # "" THEN <<used, "(low_quality)">>
                                  ELSE <<"low_quality">>,
                 !.filter_reason = reason,
                 !.attempt_log = IF record_attempts THEN log ELSE @ ]

LowQualityExhausted ==
    /\ pc = "gate"
    /\ ret.norm # NoNorm
    /\ is_low_quality(ret.norm.content.body).filt
    /\ ~RetryAllowed(filter_attempts + 1)
    /\ refs' = [refs EXCEPT ![idx] =
                  MarkLowQuality(@, ret.used, is_low_quality(ret.norm.content.body).reason,
                                 Extended(aggregate_attempt_log, filter_attempts + 1,
                                          attempts, args.record_attempts),
                                 args.record_attempts)]
    /\ counters' = [counters EXCEPT !.success = @ + 1]
    /\ pc' = "save"
    /\ outcome' = [outcome EXCEPT ![idx] =
                     [res |-> "lowq", norm |-> ret.norm, used |-> ret.used,
                      reason |-> is_low_quality(ret.norm.content.body).reason,
                      walks |-> walks]]
    /\ LoopLeft
    /\ UNCHANGED <<outside, disk, args, start, idx, end, runs, runStore, runCalls, recFiles, persisted, calls>>

\* scraped not set on acceptance
MarkAcceptedNotScraped(ref, used, log, record_attempts) ==
    [ ref EXCEPT !.fetcher_used = <<used>>,
                 !.attempt_log = IF record_attempts THEN log ELSE @ ]

\* lines 311-321
MarkAccepted(ref, used, log, record_attempts) ==
    [ ref EXCEPT !.scraped = TRUE,
                 !.fetcher_used = <<used>>,
                 !.attempt_log = IF record_attempts THEN log ELSE @ ]

Accept ==
    /\ pc = "gate"
    /\ ret.norm # NoNorm
    /\ ~is_low_quality(ret.norm.content.body).filt
    /\ counters' = [counters EXCEPT !.success = @ + 1]
    /\ refs' = [refs EXCEPT ![idx] =
                  MarkAccepted(@, ret.used,
                               Extended(aggregate_attempt_log, filter_attempts + 1,
                                        attempts, args.record_attempts),
                               args.record_attempts)]
    /\ files' = save_markdown(files, refs'[idx], ret.norm, args.skip_exists)
    /\ pc' = "save"
    /\ outcome' = [outcome EXCEPT ![idx] =
                     [res |-> "accepted", norm |-> ret.norm, used |-> ret.used,
                      reason |-> <<>>, walks |-> 0]]
    /\ LoopLeft
    /\ UNCHANGED <<outside, store, tmp, args, start, idx, end, runs, runStore, runCalls, recFiles,
                   persisted, calls>>

\* --------------------------------------------------------- save_references()
\* the lines written to the store file itself
tmp_pathInPlace == "store"

\* line 100: the file the new lines are written to
tmp_path == "tmp"

\* the two files as one value, so that a path selects the file
Fs(st, t) == [store |-> [exists |-> TRUE, lines |-> st], tmp |-> t]

\* line 101: open(tmp_path, 'w') creates or truncates
fs_open(fs, path) == [fs EXCEPT ![path] = [exists |-> TRUE, lines |-> <<>>]]
\* line 103
fs_write(fs, path, line) == [fs EXCEPT ![path].lines = Append(@, line)]
\* os.replace forgotten
fs_replaceMissing(fs, src, dst) == fs

\* line 104: os.replace(src, dst)
fs_replace(fs, src, dst) ==
    IF src = dst THEN fs
    ELSE [fs EXCEPT ![dst] = fs[src], ![src] = NoTmp]

SaveOpen ==
    /\ pc = "save"
    /\ LET fs == fs_open(Fs(store, tmp), tmp_path) IN
        /\ store' = fs.store.lines
        /\ tmp' = fs.tmp
    /\ pc' = "write"
    /\ UNCHANGED <<outside, files, args, refs, start, idx, end, counters, locals, hist>>

\* line 102-103: one record is written; written counts them
Written(fs) == Len(fs[tmp_path].lines)

SaveWrite ==
    /\ pc = "write"
    /\ Written(Fs(store, tmp)) < Len(refs)
    /\ LET n == Written(Fs(store, tmp)) + 1
           fs == fs_write(Fs(store, tmp), tmp_path, json_dumps(refs[n]))
       IN  /\ store' = fs.store.lines
           /\ tmp' = fs.tmp
    /\ UNCHANGED <<outside, files, proc, hist>>

\* line 104, then the for loop's next iteration
SaveReplace ==
    /\ pc = "write"
    /\ Written(Fs(store, tmp)) >= Len(refs)
    /\ LET fs == fs_replace(Fs(store, tmp), tmp_path, "store") IN
        /\ store' = fs.store.lines
        /\ tmp' = fs.tmp
    /\ persisted' = persisted \cup {idx}
    /\ idx' = idx + 1
    /\ pc' = "for"
    /\ recFiles' = files
    /\ calls' = <<>>
    /\ UNCHANGED <<outside, files, args, refs, start, end, counters, locals, runs, runStore,
                   runCalls, recCalls, walks, outcome>>

\* open, write or os.replace raises OSError: main() ends with the traceback
WriteFails ==
    /\ pc \in {"save", "write"}
    /\ Gone
    /\ UNCHANGED <<outside, disk, hist>>

\* the process is killed
Interrupt ==
    /\ pc # "idle"
    /\ Gone
    /\ UNCHANGED <<outside, disk, hist>>

\* ---------------------------------------------- two invocations at the same time
\* Two processes run main() on the same store file, the first over line 1,
\* the second over the lines after it, with the default flags (no force,
\* skip_exists).  The directory holds the names of the store file and of its
\* '.tmp' file, each naming an inode; open(tmp_path, 'w') truncates the inode
\* the name has or creates one, a file object writes to the inode it opened,
\* and os.replace moves the name.  A record's engine calls touch nothing the
\* processes share, so they are one step here.
Procs == {1, 2}
Range(p) == IF p = 1 THEN [start |-> 1, end |-> 1] ELSE [start |-> 2, end |-> MaxRecords]

NoInode == 0
NoProc == [pc |-> "idle", refs |-> <<>>, idx |-> 0, end |-> 0, fd |-> NoInode,
           fetched |-> NoNorm, marked |-> {}]
\* no two invocations at once
ConcIdle ==
    /\ cfs = [store |-> NoInode, tmp |-> NoInode, data |-> <<>>]
    /\ cproc = [p \in Procs |-> NoProc]

\* the lines of the store file
StoreLines == cfs.data[cfs.store]

\* lines 238-244
CLoad(p) ==
    /\ cproc[p].pc = "idle"
    /\ LET r == load_references(StoreLines)
       IN  cproc' = [cproc EXCEPT ![p] = [@ EXCEPT !.pc = "for", !.refs = r,
                        !.idx = Range(p).start, !.end = Min(Range(p).end, Len(r))]]
    /\ UNCHANGED <<cfs, besidesConc>>

\* lines 246-256: a record without url or already scraped is passed over
CSkip(p) ==
    /\ cproc[p].pc = "for"
    /\ cproc[p].idx <= cproc[p].end
    /\ LET ref == cproc[p].refs[cproc[p].idx]
       IN  ref.url = NoUrl \/ SkipCondition(ref, FALSE)
    /\ cproc' = [cproc EXCEPT ![p].idx = @ + 1]
    /\ UNCHANGED <<cfs, besidesConc>>

\* lines 257-281: every walk of the chain failed
CFailed(p) ==
    /\ cproc[p].pc = "for"
    /\ cproc[p].idx <= cproc[p].end
    /\ LET i == cproc[p].idx
           ref == cproc[p].refs[i]
       IN  /\ ref.url # NoUrl /\ ~SkipCondition(ref, FALSE)
           /\ cproc' = [cproc EXCEPT ![p] = [@ EXCEPT !.pc = "open",
                           !.refs[i] = MarkFailed(ref, <<>>, FALSE)]]
    /\ UNCHANGED <<cfs, besidesConc>>

\* lines 257-310: three walks gave low-quality content
CLowQuality(p) ==
    /\ cproc[p].pc = "for"
    /\ cproc[p].idx <= cproc[p].end
    /\ LET i == cproc[p].idx
           ref == cproc[p].refs[i]
       IN  /\ ref.url # NoUrl /\ ~SkipCondition(ref, FALSE)
           /\ \E k \in 1..Len(sequence(ref)), body \in Bodies :
                /\ is_low_quality(body).filt
                /\ cproc' = [cproc EXCEPT ![p] = [@ EXCEPT !.pc = "open",
                      !.marked = @ \cup {i},
                      !.refs[i] = MarkLowQuality(ref, used_label(sequence(ref)[k].label),
                                                 is_low_quality(body).reason, <<>>, FALSE)]]
    /\ UNCHANGED <<cfs, besidesConc>>

\* lines 257-321 up to save_markdown: a walk gave acceptable content
CAccepted(p) ==
    /\ cproc[p].pc = "for"
    /\ cproc[p].idx <= cproc[p].end
    /\ LET i == cproc[p].idx
           ref == cproc[p].refs[i]
       IN  /\ ref.url # NoUrl /\ ~SkipCondition(ref, FALSE)
           /\ \E k \in 1..Len(sequence(ref)) :
                cproc' = [cproc EXCEPT ![p] = [@ EXCEPT !.pc = "page",
                      !.marked = @ \cup {i},
                      !.fetched = Norm(sequence(ref)[k], GoodBody),
                      !.refs[i] = MarkAccepted(ref, used_label(sequence(ref)[k].label),
                                               <<>>, FALSE)]]
    /\ UNCHANGED <<cfs, besidesConc>>

\* line 313: save_markdown
CSavePage(p) ==
    /\ cproc[p].pc = "page"
    /\ files' = save_markdown(files, cproc[p].refs[cproc[p].idx], cproc[p].fetched, TRUE)
    /\ cproc' = [cproc EXCEPT ![p] = [@ EXCEPT !.pc = "open", !.fetched = NoNorm]]
    /\ UNCHANGED <<cfs, store, tmp, proc, hist, balance, gate, extract, client>>

\* save_references, line 101: open(tmp_path, 'w')
COpen(p) ==
    /\ cproc[p].pc = "open"
    /\ IF cfs.tmp # NoInode
       THEN /\ cfs' = [cfs EXCEPT !.data[cfs.tmp] = <<>>]
            /\ cproc' = [cproc EXCEPT ![p] = [@ EXCEPT !.pc = "close", !.fd = cfs.tmp]]
       ELSE /\ cfs' = [cfs EXCEPT !.tmp = Len(cfs.data) + 1,
                                  !.data = Append(cfs.data, <<>>)]
            /\ cproc' = [cproc EXCEPT ![p] = [@ EXCEPT !.pc = "close",
                                                       !.fd = Len(cfs.data) + 1]]
    /\ UNCHANGED besidesConc

\* what a file holds after `lines` were written at its start
Overwritten(old, lines) ==
    [ n \in 1..(IF Len(old) > Len(lines) THEN Len(old) ELSE Len(lines)) |->
        IF n <= Len(lines) THEN lines[n] ELSE old[n] ]

\* lines 102-103: the lines are buffered by the file object and reach the
\* file it opened when the with block closes it
CClose(p) ==
    /\ cproc[p].pc = "close"
    /\ cfs' = [cfs EXCEPT !.data[cproc[p].fd] = Overwritten(@, Serialize(cproc[p].refs))]
    /\ cproc' = [cproc EXCEPT ![p] = [@ EXCEPT !.pc = "replace", !.fd = NoInode]]
    /\ UNCHANGED besidesConc

\* line 104: os.replace(tmp_path, path), then the for loop's next iteration
CReplace(p) ==
    /\ cproc[p].pc = "replace"
    /\ cfs.tmp # NoInode
    /\ cfs' = [cfs EXCEPT !.store = cfs.tmp, !.tmp = NoInode]
    /\ cproc' = [cproc EXCEPT ![p] = [@ EXCEPT !.pc = "for", !.idx = @ + 1]]
    /\ UNCHANGED besidesConc

\* line 104: the other process has moved the '.tmp' file away: os.replace
\* raises FileNotFoundError and main() ends with the traceback
CReplaceFails(p) ==
    /\ cproc[p].pc = "replace"
    /\ cfs.tmp = NoInode
    /\ cproc' = [cproc EXCEPT ![p] = [@ EXCEPT !.pc = "dead"]]
    /\ UNCHANGED <<cfs, besidesConc>>

\* line 246: the range is exhausted; lines 325-332
CFinish(p) ==
    /\ cproc[p].pc = "for"
    /\ cproc[p].idx > cproc[p].end
    /\ cproc' = [cproc EXCEPT ![p] = [@ EXCEPT !.pc = "done"]]
    /\ UNCHANGED <<cfs, besidesConc>>

\* ------------------------------------- local_models.py: round-robin endpoints
\* get_oss_config and get_embedding_config have the same code over their own
\* environment variable, counter and lock; `which` names the one called.
Which == {"oss", "embedding"}
Threads == 1..MaxThreads

\* values of OSS_PORTS / EMBEDDING_PORTS, as sequences of characters; the
\* first is the default when the variable is not set
PortSettings ==
    { <<"7">>,
      <<"7", ",", " ", "8">>,
      <<"7", ",", "8", ",", "9", " ">> }

\* str.split(","): the pieces between the commas
RECURSIVE split(_, _)
split(text, piece) ==
    IF text = <<>> THEN <<piece>>
    ELSE IF Head(text) = "," THEN <<piece>> \o split(Tail(text), <<>>)
    ELSE split(Tail(text), Append(piece, Head(text)))

HasComma(text) == \E n \in 1..Len(text) : text[n] = ","

\* lines 41-44 and 71-74
ports_list(text) ==
    IF HasComma(text)
    THEN [n \in 1..Len(split(text, <<>>)) |-> Strip(split(text, <<>>)[n], Whitespace)]
    ELSE <<text>>

NoLock == 0
NoThread == [pc |-> "idle", which |-> "", ports_list |-> <<>>, port |-> <<>>, loaded |-> 0]

\* no thread in local_models
BalanceIdle ==
    /\ env = [w \in Which |-> <<"7">>]
    /\ counter = [w \in Which |-> 0]
    /\ lock = [w \in Which |-> NoLock]
    /\ thread = [t \in Threads |-> NoThread]
    /\ observed = [w \in Which |-> <<>>]

\* lines 32-44 and 62-74: the call, up to the with statement
Call(t, w) ==
    /\ thread[t].pc = "idle"
    /\ Len(observed[w]) < MaxCalls
    /\ thread' = [thread EXCEPT ![t] = [NoThread EXCEPT !.pc = "with", !.which = w,
                                           !.ports_list = ports_list(env[w])]]
    /\ UNCHANGED <<env, counter, lock, observed, besidesBalance>>

\* the lock left open
LockFreeAlways(w) == TRUE

LockFree(w) == lock[w] = NoLock

\* lines 47 and 77: with _oss_lock
Acquire(t) ==
    /\ thread[t].pc = "with"
    /\ LockFree(thread[t].which)
    /\ lock' = [lock EXCEPT ![thread[t].which] = t]
    /\ thread' = [thread EXCEPT ![t].pc = "select"]
    /\ UNCHANGED <<env, counter, observed, besidesBalance>>

\* lines 48 and 78: port = ports_list[counter % len(ports_list)]
Select(t) ==
    /\ thread[t].pc = "select"
    /\ LET w == thread[t].which
           slot == counter[w] % Len(thread[t].ports_list)
       IN  /\ thread' = [thread EXCEPT ![t] = [@ EXCEPT !.pc = "load",
                                                  !.port = thread[t].ports_list[slot + 1]]]
           /\ observed' = [observed EXCEPT ![w] =
                              Append(@, [value |-> counter[w], slot |-> slot, by |-> t])]
    /\ UNCHANGED <<env, counter, lock, besidesBalance>>

\* lines 49 and 79: counter += 1 reads the global ...
Load(t) ==
    /\ thread[t].pc = "load"
    /\ thread' = [thread EXCEPT ![t] = [@ EXCEPT !.pc = "store",
                                               !.loaded = counter[thread[t].which]]]
    /\ UNCHANGED <<env, counter, lock, observed, besidesBalance>>

\* ... and stores the sum
Store(t) ==
    /\ thread[t].pc = "store"
    /\ counter' = [counter EXCEPT ![thread[t].which] = thread[t].loaded + 1]
    /\ thread' = [thread EXCEPT ![t] = [@ EXCEPT !.pc = "exit", !.loaded = 0]]
    /\ UNCHANGED <<env, lock, observed, besidesBalance>>

\* the with block is left and the dict returned: lines 51-60 and 81-88
Release(t) ==
    /\ thread[t].pc = "exit"
    /\ lock' = [lock EXCEPT ![thread[t].which] = IF @ = t THEN NoLock ELSE @]
    /\ thread' = [thread EXCEPT ![t] = [@ EXCEPT !.pc = "idle"]]
    /\ UNCHANGED <<env, counter, observed, besidesBalance>>

\* ------------------------------------------------ is_low_quality on its own
\* Contents to judge: `texts` lines of text, then maybe a line holding one of
\* the signatures, then `blanks` lines that are empty or hold only a space.
Content(texts, sig, blanks) ==
    Lines(texts)
    \o (IF sig = 0 THEN <<>> ELSE << <<"text", patterns[sig], "text">> >>)
    \o [k \in 1..blanks |-> IF k % 2 = 1 THEN <<" ">> ELSE <<>>]

Contents ==
    { Content(texts, sig, blanks) :
        texts \in 0..MaxTextLines, sig \in 0..Len(patterns), blanks \in 0..MaxBlankLines }

NoVerdict == [filt |-> FALSE, reason |-> <<"not judged">>]

\* nothing handed to the gate
GateIdle ==
    /\ content = <<>>
    /\ verdict = NoVerdict

\* lines 107-130
Judge ==
    /\ verdict = NoVerdict
    /\ verdict' = is_low_quality(content)
    /\ UNCHANGED <<content, besidesGate>>

\* ------------------------------------- extract_references.py: the Field Extractor
\* A reference entry is a string.  It is modelled as the sequence of the
\* pieces the regular expressions of build_reference_items tell apart, which
\* stand in the entry separated by single blanks:
\*   marker   a leading "1."                          w = <<"1.">>
\*   jump     the phrase "^ Jump up to:"
\*   caret    **[^](url)**
\*   text     words, in italics (_.._) with style "italic"
\*   link     [words](url), the words in quotes with style "quoted"
\*   pub      (Month D, YYYY)                          w = the words between ( and )
\*   ret      Retrieved Month D, YYYY                  w = the words of the date
\* dot tells whether a period follows the piece.  A word is a string, a url
\* is scheme://host path fragment; positions and lengths count characters.
Piece(k, w, style, url, dot) == [k |-> k, w |-> w, style |-> style, url |-> url, dot |-> dot]
HttpUrl(host, path, frag) == [host |-> host, path |-> path, frag |-> frag]
NoLink == HttpUrl("", "", "")

Marker(w) == Piece("marker", w, "", NoLink, FALSE)
JumpUp == Piece("jump", <<"^", "Jump", "up", "to:">>, "", NoLink, FALSE)
Caret(url) == Piece("caret", <<"^">>, "", url, FALSE)
Text(w, style, dot) == Piece("text", w, style, NoLink, dot)
Link(w, style, url, dot) == Piece("link", w, style, url, dot)
Pub(w, dot) == Piece("pub", w, "", NoLink, dot)
Ret(w, dot) == Piece("ret", w, "", NoLink, dot)

\* The characters of a piece, as the sequence of its atoms: words, single
\* blanks and punctuation.  A string is recovered from atoms by Concat.
RECURSIVE Spaced(_)
Spaced(w) ==
    IF Len(w) <= 1 THEN w ELSE <<Head(w), " ">> \o Spaced(Tail(w))

RECURSIVE CharLen(_)
CharLen(atoms) == IF atoms = <<>> THEN 0 ELSE Len(Head(atoms)) + CharLen(Tail(atoms))

RECURSIVE Concat(_)
Concat(atoms) == IF atoms = <<>> THEN "" ELSE Head(atoms) \o Concat(Tail(atoms))

Quote == "\""
Styled(p) ==
    CASE p.style = "quoted" -> <<Quote>> \o Spaced(p.w) \o <<Quote>>
      [] p.style = "italic" -> <<"_">> \o Spaced(p.w) \o <<"_">>
      [] OTHER -> Spaced(p.w)
Period(p) == IF p.dot THEN <<".">> ELSE <<>>
UrlAtoms(u) == <<"https://", u.host, u.path, u.frag>>
UrlStr(u) == Concat(UrlAtoms(u))

\* "[text](url)"
LinkAtoms(p) == <<"[">> \o Styled(p) \o <<"](">> \o UrlAtoms(p.url) \o <<")">>

PieceAtoms(p) ==
    CASE p.k = "link" -> LinkAtoms(p) \o Period(p)
      [] p.k = "caret" -> <<"**[^](">> \o UrlAtoms(p.url) \o <<")**">>
      [] p.k = "pub" -> <<"(">> \o Spaced(p.w) \o <<")">> \o Period(p)
      [] p.k = "ret" -> <<"Retrieved", " ">> \o Spaced(p.w) \o Period(p)
      [] OTHER -> Styled(p) \o Period(p)
PieceLen(p) == CharLen(PieceAtoms(p))

\* the position in the entry at which piece n starts
RECURSIVE StartOf(_, _)
StartOf(e, n) == IF n <= 1 THEN 0 ELSE StartOf(e, n - 1) + PieceLen(e[n - 1]) + 1

\* 'wikipedia.org' in u
IsWikipedia(u) == u.host = "en.wikipedia.org"
HasCiteRef(u) == u.frag = "#cite_ref-1"
HasCiteNote(u) == u.frag = "#cite_note-1"

\* lines 263-272: the marker, the jump phrase, the carets and the cite_ref
\* anchor links are removed, blanks compressed
DropLeading(e, k) == IF e # <<>> /\ Head(e).k = k THEN Tail(e) ELSE e

Kept(p) == ~(p.k = "caret") /\ ~(p.k = "link" /\ HasCiteRef(p.url))
Cleaned(raw_entry) == SelectSeq(DropLeading(DropLeading(raw_entry, "marker"), "jump"), Kept)

\* line 274: md_links, as the places of the links in the entry
RECURSIVE Ascending(_)
Ascending(S) ==
    IF S = {} THEN <<>>
    ELSE LET m == CHOOSE x \in S : \A y \in S : x <= y
         IN  <<m>> \o Ascending(S \ {m})

IsLink(p) == p.k = "link"
md_links(e) == Ascending({ n \in 1..Len(e) : IsLink(e[n]) })

\* lines 280-291; the link texts of one letter and those that hold 'jump'
LetterTexts == { <<"a">>, <<"b">> }
JumpTexts == { <<"Jump", "up">>, <<"jump">> }
is_pure_anchor(p) ==
    \/ HasCiteRef(p.url) \/ HasCiteNote(p.url)
    \/ p.w \in LetterTexts
    \/ p.w \in JumpTexts

IsContentLink(p) == IsLink(p) /\ ~is_pure_anchor(p)
content_links(e) == Ascending({ n \in 1..Len(e) : IsContentLink(e[n]) })

\* entry.find('[' + t + ']('): where the first link with this text starts
FirstWithText(e, n) ==
    CHOOSE m \in 1..n :
        /\ IsLink(e[m]) /\ e[m].w = e[n].w /\ e[m].style = e[n].style
        /\ \A j \in 1..(m - 1) : ~(IsLink(e[j]) /\ e[j].w = e[n].w /\ e[j].style = e[n].style)
find(e, n) == StartOf(e, FirstWithText(e, n))

\* str.strip(chars), str.lstrip(chars) on atoms
RECURSIVE LStripAtoms(_, _)
LStripAtoms(atoms, cs) ==
    IF atoms # <<>> /\ Head(atoms) \in cs THEN LStripAtoms(Tail(atoms), cs) ELSE atoms

RECURSIVE RStripAtoms(_, _)
RStripAtoms(atoms, cs) ==
    IF atoms # <<>> /\ atoms[Len(atoms)] \in cs
    THEN RStripAtoms(SubSeq(atoms, 1, Len(atoms) - 1), cs)
    ELSE atoms

StripAtoms(atoms, cs) == RStripAtoms(LStripAtoms(atoms, cs), cs)
EndsWith(atoms, c) == atoms # <<>> /\ atoms[Len(atoms)] = c
WordCount(atoms) == Cardinality({ i \in 1..Len(atoms) : atoms[i] # " " })

\* lines 299-304: the first (Month D, YYYY) and the first Retrieved phrase
NoPlace == 0
FirstPlace(S) == IF S = {} THEN NoPlace ELSE CHOOSE x \in S : \A y \in S : x <= y
m_pub(e) == FirstPlace({ n \in 1..Len(e) : e[n].k = "pub" })
m_ret(e) == FirstPlace({ n \in 1..Len(e) : e[n].k = "ret" })

PubGroup(p) == <<"(">> \o Spaced(p.w) \o <<")">>
publish_date(e) ==
    IF m_pub(e) = NoPlace THEN <<>> ELSE StripAtoms(PubGroup(e[m_pub(e)]), {"(", ")"})
retrieved_date(e) ==
    IF m_ret(e) = NoPlace THEN <<>>
    ELSE LET g == PieceAtoms(e[m_ret(e)])
         IN  IF EndsWith(g, ".") THEN g ELSE g \o <<".">>

\* lines 314-344: the text before the date, or before the first external
\* link, its links replaced by their texts and one final period removed
FirstExternal(e) ==
    FirstPlace({ n \in 1..Len(e) : IsContentLink(e[n]) /\ ~IsWikipedia(e[n].url) })
SegmentEnd(e) ==
    IF m_pub(e) # NoPlace THEN m_pub(e)
    ELSE IF FirstExternal(e) # NoPlace THEN FirstWithText(e, FirstExternal(e))
    ELSE FirstWithText(e, content_links(e)[1])

Unlinked(p) == IF IsLink(p) THEN Styled(p) \o Period(p) ELSE PieceAtoms(p)
RECURSIVE SegmentAtoms(_, _)
SegmentAtoms(e, n) ==
    IF n < 1 THEN <<>>
    ELSE IF n = 1 THEN Unlinked(e[1])
    ELSE SegmentAtoms(e, n - 1) \o <<" ">> \o Unlinked(e[n])

author_segment(e) ==
    LET seg == SegmentAtoms(e, SegmentEnd(e) - 1)
    IN  IF EndsWith(seg, ".") THEN RStripAtoms(SubSeq(seg, 1, Len(seg) - 1), {" "}) ELSE seg

MaxAuthorWords == 15
author_of(e) ==
    IF WordCount(author_segment(e)) > MaxAuthorWords THEN <<>> ELSE author_segment(e)

\* lines 346-384: the title link, by four strategies in turn
after_pub_pos(e) ==
    IF m_pub(e) # NoPlace THEN StartOf(e, m_pub(e)) + CharLen(PubGroup(e[m_pub(e)]))
    ELSE CharLen(author_segment(e))

IsQuoted(p) == p.style = "quoted"
Strategy1(e) ==
    FirstPlace({ n \in 1..Len(e) :
        /\ IsContentLink(e[n]) /\ find(e, n) >= after_pub_pos(e)
        /\ ~IsWikipedia(e[n].url) /\ IsQuoted(e[n]) })
Strategy2(e) ==
    FirstPlace({ n \in 1..Len(e) :
        /\ IsContentLink(e[n]) /\ find(e, n) >= after_pub_pos(e)
        /\ ~IsWikipedia(e[n].url) })
Strategy3(e) ==
    FirstPlace({ n \in 1..Len(e) : IsContentLink(e[n]) /\ find(e, n) >= after_pub_pos(e) })
Strategy4(e) ==
    FirstPlace({ n \in 1..Len(e) :
        /\ IsContentLink(e[n])
        /\ (author_segment(e) = <<>> \/ find(e, n) >= CharLen(author_segment(e))) })
title_link(e) ==
    IF Strategy1(e) # NoPlace THEN Strategy1(e)
    ELSE IF Strategy2(e) # NoPlace THEN Strategy2(e)
    ELSE IF Strategy3(e) # NoPlace THEN Strategy3(e)
    ELSE Strategy4(e)

\* lines 387-392
IsArchived(p) == p.style = "" /\ p.w \in { <<"Archived">>, <<"archived">> }
archive_url(e) ==
    LET n == FirstPlace({ m \in 1..Len(e) : IsContentLink(e[m]) /\ IsArchived(e[m]) })
    IN  IF n = NoPlace THEN <<>> ELSE UrlAtoms(e[n].url)

\* lines 395-411: the text of the first later link that is neither the title
\* nor the archive link
Emphasis == {"_", "*", " "}
SameText(p, q) == p.w = q.w /\ p.style = q.style
source_link(e, t) ==
    FirstPlace({ n \in 1..Len(e) :
        /\ IsContentLink(e[n])
        /\ ~(SameText(e[n], e[t]) /\ e[n].url = e[t].url)
        /\ find(e, n) >= find(e, t)
        /\ ~IsArchived(e[n])
        /\ ~SameText(e[n], e[t]) })

\* lines 414-445: the plain text after the title link, up to the first
\* 'Archived' or 'Retrieved'.  In the entries modelled these two words stand
\* first in their piece.
CapWords == {"Example", "News", "John", "Smith", "NPR", "Associated", "Press", "Title"}
FirstSame(e, t) ==
    FirstPlace({ n \in 1..t : IsLink(e[n]) /\ SameText(e[n], e[t]) /\ e[n].url = e[t].url })
HasKeyword(p) ==
    \/ p.k = "ret"
    \/ \E i \in 1..Len(p.w) : p.w[i] \in {"Archived", "Retrieved"}
tail_section(e, t) ==
    LET from == FirstSame(e, t)
        cut == FirstPlace({ n \in (from + 1)..Len(e) : HasKeyword(e[n]) })
    IN  (from + 1)..(IF cut = NoPlace THEN Len(e) ELSE cut - 1)

m_italic(e, t) ==
    FirstPlace({ n \in tail_section(e, t) : e[n].style = "italic" /\ CharLen(Spaced(e[n].w)) >= 2 })
MaxAcroWords == 5
m_acro(e, t) ==
    LET n == FirstSame(e, t) + 1
    IN  /\ ~e[FirstSame(e, t)].dot
        /\ n \in tail_section(e, t)
        /\ e[n].k = "text" /\ e[n].style = "" /\ e[n].dot
        /\ Len(e[n].w) \in 1..MaxAcroWords
        /\ \A i \in 1..Len(e[n].w) : e[n].w[i] \in CapWords
m_npr(e, t) ==
    FirstPlace({ n \in tail_section(e, t) :
        /\ e[n].k = "text" /\ e[n].style = "" /\ e[n].dot
        /\ e[n].w # <<>> /\ e[n].w[Len(e[n].w)] = "NPR" })
candidate(e, t) ==
    IF m_italic(e, t) # NoPlace THEN Spaced(e[m_italic(e, t)].w)
    ELSE IF m_acro(e, t) THEN Spaced(e[FirstSame(e, t) + 1].w)
    ELSE IF m_npr(e, t) # NoPlace THEN <<"NPR">>
    ELSE <<>>

source_of(e, t) ==
    LET linked == IF source_link(e, t) = NoPlace THEN <<>>
                  ELSE StripAtoms(Styled(e[source_link(e, t)]), Emphasis)
    IN  IF (linked = <<>> \/ Concat(linked) = Concat(author_of(e)))
           /\ candidate(e, t) # <<>>
           /\ Concat(candidate(e, t)) # Concat(author_of(e))
        THEN StripAtoms(candidate(e, t), Emphasis)
        ELSE linked

\* the filter switched off
WikipediaOnlyNever(e, t) == FALSE

\* lines 448-449
WikipediaOnly(e, t) ==
    IsWikipedia(e[t].url) /\ \A n \in 1..Len(e) : IsContentLink(e[n]) => IsWikipedia(e[n].url)

\* lines 452-453
title_of(e, t) == StripAtoms(StripAtoms(Styled(e[t]), {Quote}), Emphasis)

\* lines 307-312
clean_name(atoms) == LStripAtoms(atoms, {"^", "*", "_", " "})

\* lines 456-485: author and source fill in for each other; a field that is
\* empty gets no key
Item(e, t) ==
    LET author1 == IF author_of(e) = <<>> THEN source_of(e, t) ELSE author_of(e)
        source1 == IF source_of(e, t) = <<>> THEN author1 ELSE source_of(e, t)
        author2 == clean_name(author1)
        source2 == clean_name(source1)
        author  == IF author2 = <<>> THEN source2 ELSE author2
        source  == IF source2 = <<>> THEN author ELSE source2
        all == [title |-> Concat(title_of(e, t)),
                url |-> UrlStr(e[t].url),
                is_external |-> ~IsWikipedia(e[t].url),
                author |-> Concat(author),
                source |-> Concat(source),
                archive_url |-> Concat(archive_url(e)),
                publish_date |-> Concat(publish_date(e)),
                retrieved_date |-> Concat(retrieved_date(e))]
        keys == {"title", "url", "is_external"}
                \cup { k \in {"author", "source", "archive_url", "publish_date",
                              "retrieved_date"} : all[k] # "" }
    IN  [k \in keys |-> all[k]]

\* lines 298-487, for a cleaned entry that has content links: no item or one
Extracted(e) ==
    IF title_link(e) = NoPlace THEN <<>>
    ELSE IF WikipediaOnly(e, title_link(e)) THEN <<>>
    ELSE << Item(e, title_link(e)) >>

\* an entry without links kept as a record without title and url
build_reference_itemUnlinked(raw_entry) ==
    LET e == Cleaned(raw_entry)
    IN  IF e = <<>> THEN <<>>
        ELSE IF md_links(e) = <<>> \/ content_links(e) = <<>>
        THEN << [title |-> "", url |-> "", is_external |-> TRUE] >>
        ELSE Extracted(e)

\* lines 262-487, for one entry: no item or one
build_reference_item(raw_entry) ==
    LET e == Cleaned(raw_entry)
    IN  IF e = <<>> \/ md_links(e) = <<>> \/ content_links(e) = <<>> THEN <<>>
        ELSE Extracted(e)

RECURSIVE build_reference_items(_)
build_reference_items(raw_entries) ==
    IF raw_entries = <<>> THEN <<>>
    ELSE build_reference_item(Head(raw_entries)) \o build_reference_items(Tail(raw_entries))

\* The entries the extractor is run on: an optional numbering marker and
\* jump anchors, an optional author text, a title link or none, a publication date
\* before or after it, a source as text or link, an archive link and a
\* Retrieved phrase, each present or not.
ExampleUrl == HttpUrl("example.com", "/a", "")
NewsUrl == HttpUrl("news.example.com", "/", "")
ArchiveLinkUrl == HttpUrl("web.archive.org", "/web/2021/https://example.com/a", "")
WikiUrl == HttpUrl("en.wikipedia.org", "/wiki/Example", "")
CiteRefUrl == HttpUrl("en.wikipedia.org", "/wiki/Example", "#cite_ref-1")

ExampleTitle == <<"Example", "Title">>
ExampleNews == <<"Example", "News">>
PubDate == Pub(<<"January", "5,", "2020">>, TRUE)

Markers == { <<>>, <<Marker(<<"1.">>)>> }
Anchors == { <<>>, <<JumpUp, Link(<<"a">>, "", CiteRefUrl, FALSE)>>, <<Caret(CiteRefUrl)>> }
Authors == { <<>>, <<Text(<<"John", "Smith">>, "", TRUE)>> }
DatePlaces == {"none", "before", "after"}
TitleLinks ==
    { Link(ExampleTitle, style, url, dot) :
        style \in {"", "quoted"}, url \in {ExampleUrl, WikiUrl}, dot \in BOOLEAN }
    \cup { Link(<<>>, "quoted", ExampleUrl, TRUE) }
\* the title link, or none
TitleParts == { <<>> } \cup { <<link>> : link \in TitleLinks }
Sources ==
    { <<>>,
      <<Text(ExampleNews, "", TRUE)>>,
      <<Text(ExampleNews, "italic", TRUE)>>,
      <<Link(ExampleNews, "", NewsUrl, TRUE)>>,
      <<Text(<<"NPR">>, "", TRUE)>> }
Archives == { <<>>, <<Link(<<"Archived">>, "", ArchiveLinkUrl, FALSE)>> }
Retrievals == { <<>>, <<Ret(<<"March", "1,", "2021">>, TRUE)>> }

Entry(marker, anchors, author, place, title, source, archive, retrieval) ==
    marker \o anchors \o author
    \o (IF place = "before" THEN <<PubDate>> ELSE <<>>)
    \o title
    \o (IF place = "after" THEN <<PubDate>> ELSE <<>>)
    \o source \o archive \o retrieval

Entries ==
    { Entry(marker, anchors, author, place, title, source, archive, retrieval) :
        marker \in Markers, anchors \in Anchors, author \in Authors,
        place \in DatePlaces, title \in TitleParts, source \in Sources,
        archive \in Archives, retrieval \in Retrievals }

NoFile == [exists |-> FALSE, lines |-> <<>>]

ExtractIdle ==
    /\ markdown_text = <<>>
    /\ ref_lines = <<>>
    /\ ref_entries = <<>>
    /\ items = <<>>
    /\ jsonl = NoFile
    /\ extractions = <<>>
    /\ epc = "idle"

\* ----------------------------------- extract_references.py: the Entry Grouper
\* A line of text is its leading blanks and its pieces; a line without
\* pieces is blank.
TextLine(indent, pieces) == [indent |-> indent, pieces |-> pieces]
strip(ln) == ln.pieces

\* line 186: the line begins with a numbering marker or a bullet and
\* something follows it
StartsEntry(ln) == Len(ln.pieces) > 1 /\ ln.pieces[1].k = "marker"

\* line 177: ' '.join(l.strip() for l in buffer if l.strip())
RECURSIVE merged(_)
merged(buffer) == IF buffer = <<>> THEN <<>> ELSE Head(buffer) \o merged(Tail(buffer))

\* the buffer dropped unflushed
flushNothing(entries, buffer) == entries

\* lines 175-181
flush(entries, buffer) ==
    IF buffer # <<>> /\ merged(buffer) # <<>> THEN Append(entries, merged(buffer)) ELSE entries

\* lines 182-192, from the state (entries, buffer) on
RECURSIVE GroupFrom(_, _, _)
GroupFrom(lines, entries, buffer) ==
    IF lines = <<>> THEN flush(entries, buffer)
    ELSE LET ln == Head(lines)
             stripped == strip(ln)
         IN  IF stripped = <<>> THEN GroupFrom(Tail(lines), flush(entries, buffer), <<>>)
             ELSE IF StartsEntry(ln)
             THEN GroupFrom(Tail(lines), flush(entries, buffer), <<stripped>>)
             ELSE GroupFrom(Tail(lines), entries, Append(buffer, stripped))

group_reference_entries(lines) == GroupFrom(lines, <<>>, <<>>)

\* the lines the grouper is run on
RefLines ==
    { TextLine(0, <<>>),
      TextLine(2, <<>>),
      TextLine(0, <<Marker(<<"1.">>), Text(<<"John", "Smith">>, "", TRUE),
                    Link(ExampleTitle, "", ExampleUrl, TRUE)>>),
      TextLine(0, <<Marker(<<"*">>), Link(ExampleTitle, "", ExampleUrl, FALSE)>>),
      TextLine(0, <<Marker(<<"1.">>)>>),
      TextLine(0, <<Text(ExampleNews, "", TRUE)>>),
      TextLine(2, <<Ret(<<"March", "1,", "2021">>, TRUE)>>) }
RefLineLists == UNION { [1..n -> RefLines] : n \in 0..MaxRefLines }

\* main(), line 526: ref_entries = group_reference_entries(ref_lines)
GroupEntries ==
    /\ epc = "lines"
    /\ ref_entries' = group_reference_entries(ref_lines)
    /\ epc' = "entries"
    /\ UNCHANGED <<markdown_text, ref_lines, items, jsonl, extractions, besidesExtract>>

\* ----------------------------------- extract_references.py: the Block Locator
\* What the tests of parse_references_block see of a stripped line.  Lower
\* case is modelled by listing both spellings of a word.
Hashes == {"#", "##", "###"}
ReferencesWords == {"References", "references"}
ReferenceWords == ReferencesWords \cup {"Reference", "reference"}
BibliographyWords == {"Bibliography", "bibliography"}
CitationWords == {"Citations", "citations"}

HasWord(ln, words) ==
    \E n \in 1..Len(ln.pieces) : \E i \in 1..Len(ln.pieces[n].w) : ln.pieces[n].w[i] \in words
FirstText(ln) ==
    IF ln.pieces # <<>> /\ ln.pieces[1].k = "text" /\ ln.pieces[1].style = ""
    THEN ln.pieces[1].w ELSE <<>>
\* low == word, for a line that is this one word
IsWord(ln, words) ==
    /\ Len(ln.pieces) = 1 /\ ~ln.pieces[1].dot
    /\ Len(FirstText(ln)) = 1 /\ FirstText(ln)[1] \in words
\* low.startswith('#')
StartsWithHash(ln) == FirstText(ln) # <<>> /\ FirstText(ln)[1] \in Hashes
\* re.match(r'^#{1,3} ', stripped)
IsHeading(ln) == StartsWithHash(ln) /\ Len(FirstText(ln)) > 1
\* '### citations' in low
HasCitationsAnchor(ln) ==
    \E n \in 1..Len(ln.pieces) : \E i \in 1..(Len(ln.pieces[n].w) - 1) :
        ln.pieces[n].w[i] = "###" /\ ln.pieces[n].w[i + 1] \in CitationWords
\* line 85 and line 135: "1." or any number, then carets, stars or "Jump up"
IsNumberedStart(ln) ==
    /\ Len(ln.pieces) > 1
    /\ ln.pieces[1].k = "marker" /\ ln.pieces[1].w = <<"1.">>
    /\ ln.pieces[2].k \in {"jump", "caret"}
Numbers == {"1.", "2."}
IsNumberedEntry(ln) ==
    /\ Len(ln.pieces) > 1
    /\ ln.pieces[1].k = "marker" /\ ln.pieces[1].w[1] \in Numbers
    /\ ln.pieces[2].k \in {"jump", "caret"}
\* stripped.lower().startswith(('external links', 'see also', 'notes'))
StartsOtherSection(ln) ==
    LET w == FirstText(ln)
    IN  \/ Len(w) >= 1 /\ w[1] \in {"Notes", "notes"}
        \/ Len(w) >= 2 /\ <<w[1], w[2]>> \in { <<"External", "links">>, <<"See", "also">> }
\* line.startswith('*')
StartsWithStar(ln) ==
    /\ ln.pieces # <<>>
    /\ \/ ln.pieces[1].k = "marker" /\ ln.pieces[1].w = <<"*">>
       \/ ln.pieces[1].k = "caret"
\* '[' in line, '](' in line
HasBracket(ln) == \E n \in 1..Len(ln.pieces) : ln.pieces[n].k \in {"link", "caret"}
\* 'wikimedia' in line.lower()
HasWikimedia(ln) ==
    \/ HasWord(ln, {"Wikimedia", "wikimedia"})
    \/ \E n \in 1..Len(ln.pieces) : ln.pieces[n].url.host = "commons.wikimedia.org"
\* 'edit section' in line.lower()
HasEditSection(ln) ==
    \E n \in 1..Len(ln.pieces) : \E i \in 1..(Len(ln.pieces[n].w) - 1) :
        ln.pieces[n].w[i] \in {"Edit", "edit"} /\ ln.pieces[n].w[i + 1] = "section"
\* len(line)
RECURSIVE LineAtoms(_)
LineAtoms(pieces) ==
    IF pieces = <<>> THEN <<>>
    ELSE IF Len(pieces) = 1 THEN PieceAtoms(pieces[1])
    ELSE PieceAtoms(Head(pieces)) \o <<" ">> \o LineAtoms(Tail(pieces))
LongLine == 20
IsLong(ln) == CharLen(LineAtoms(ln.pieces)) > LongLine

\* lines 57-87: the places of the headings; NoPlace for None
NoHeadings == [ref |-> NoPlace, bib |-> NoPlace, cit |-> NoPlace, num |-> NoPlace]
Noted(ln, i, at) ==
    LET ref1 == IF IsWord(ln, ReferencesWords) THEN i ELSE at.ref
        ref2 == IF StartsWithHash(ln) /\ HasWord(ln, ReferencesWords) THEN i ELSE ref1
        bib1 == IF IsWord(ln, BibliographyWords) THEN i ELSE at.bib
        bib2 == IF StartsWithHash(ln) /\ HasWord(ln, BibliographyWords) THEN i ELSE bib1
        cit  == IF HasCitationsAnchor(ln) THEN i ELSE at.cit
        ref3 == IF HasCitationsAnchor(ln) /\ ref2 = NoPlace THEN i ELSE ref2
        num  == IF at.num = NoPlace /\ IsNumberedStart(ln) THEN i ELSE at.num
    IN  [ref |-> ref3, bib |-> bib2, cit |-> cit, num |-> num]
RECURSIVE HeadingsFrom(_, _, _)
HeadingsFrom(lines, i, at) ==
    IF i > Len(lines) THEN at ELSE HeadingsFrom(lines, i + 1, Noted(lines[i], i, at))
Headings(lines) == HeadingsFrom(lines, 1, NoHeadings)

\* lines 100-107, 116-123 and 133-148: the line that ends the collection
\* under a References heading, under a Bibliography heading, in a numbered list
OtherHeading(ln) ==
    IsHeading(ln) /\ ~HasWord(ln, ReferenceWords \cup CitationWords \cup BibliographyWords)
Ends(rule, ln) ==
    CASE rule = "references" ->
            OtherHeading(ln) \/ (StartsOtherSection(ln) /\ ~HasWord(ln, BibliographyWords))
      [] rule = "bibliography" ->
            OtherHeading(ln) \/ StartsOtherSection(ln)
      [] rule = "numbered" ->
            /\ ~IsNumberedEntry(ln)
            /\ ln.pieces # <<>>
            /\ (IsHeading(ln) \/ StartsOtherSection(ln))

\* for j in range(from, to): the lines up to the first one that ends the loop
RECURSIVE Collect(_, _, _, _)
Collect(lines, from, to, rule) ==
    IF from >= to \/ from > Len(lines) THEN <<>>
    ELSE IF Ends(rule, lines[from]) THEN <<>>
    ELSE <<lines[from]>> \o Collect(lines, from + 1, to, rule)

Least(S) == CHOOSE x \in S : \A y \in S : x <= y

\* lines 89-148: what the References, Bibliography and numbered-list rules collect
RulesCollected(lines) ==
    LET at == Headings(lines)
        n == Len(lines) + 1
        references ==
            IF at.ref = NoPlace THEN <<>>
            ELSE Collect(lines,
                         (IF at.cit # NoPlace THEN at.cit ELSE at.ref) + 1,
                         Least({ x \in {at.bib, at.num, n} : x # NoPlace /\ x > at.ref }),
                         "references")
        bibliography ==
            IF at.bib = NoPlace THEN <<>>
            ELSE Collect(lines, at.bib + 1,
                         IF at.num # NoPlace /\ at.num > at.bib THEN at.num ELSE n,
                         "bibliography")
        numbered ==
            IF at.num = NoPlace THEN <<>> ELSE Collect(lines, at.num, n, "numbered")
    IN  references \o bibliography \o numbered

\* lines 153-164: the scan from line i back to the first line
RECURSIVE BackwardScan(_, _)
BackwardScan(lines, i) ==
    IF i < 1 THEN <<>>
    ELSE LET line == lines[i]
         IN  IF strip(line) = <<>> THEN BackwardScan(lines, i - 1)
             ELSE IF StartsWithStar(line) /\ HasBracket(line)
             THEN Append(BackwardScan(lines, i - 1), line)
             ELSE IF HasWikimedia(line) /\ HasBracket(line)
             THEN Append(BackwardScan(lines, i - 1), line)
             ELSE IF StartsWithHash(line) \/ HasEditSection(line) THEN <<>>
             ELSE IF ~StartsWithStar(line) /\ ~HasBracket(line) /\ IsLong(line) THEN <<>>
             ELSE BackwardScan(lines, i - 1)

\* line 150: the scan is run when no heading and no numbered list was found
FallsBack(lines) ==
    LET at == Headings(lines)
    IN  at.ref = NoPlace /\ at.bib = NoPlace /\ at.num = NoPlace

parse_references_block(lines) ==
    IF FallsBack(lines)
    THEN RulesCollected(lines) \o BackwardScan(lines, Len(lines))
    ELSE RulesCollected(lines)

\* the lines of the documents the locator is run on
DocLines ==
    { TextLine(0, <<>>),
      TextLine(0, <<Text(<<"References">>, "", FALSE)>>),
      TextLine(0, <<Text(<<"##", "References">>, "", FALSE)>>),
      TextLine(0, <<Text(<<"Bibliography">>, "", FALSE)>>),
      TextLine(0, <<Text(<<"###", "Citations">>, "", FALSE)>>),
      TextLine(0, <<Text(<<"##", "See", "also">>, "", FALSE)>>),
      TextLine(0, <<Text(<<"External", "links">>, "", FALSE)>>),
      TextLine(0, <<Marker(<<"*">>), Link(ExampleTitle, "", ExampleUrl, FALSE)>>),
      TextLine(0, <<Marker(<<"1.">>), JumpUp, Link(ExampleTitle, "quoted", ExampleUrl, TRUE)>>),
      TextLine(0, <<Text(<<"John", "Smith">>, "", TRUE), Link(ExampleTitle, "", ExampleUrl, TRUE)>>),
      TextLine(0, <<Text(<<"John", "Smith", "Example", "News", "Example", "Title">>, "", TRUE)>>),
      TextLine(2, <<Link(<<"Wikimedia", "Commons">>, "",
                         HttpUrl("commons.wikimedia.org", "/wiki/Example", ""), FALSE)>>) }
Documents == UNION { [1..n -> DocLines] : n \in 0..MaxDocLines }

\* main(), line 525: ref_lines = parse_references_block(markdown_text)
LocateBlock ==
    /\ epc = "markdown"
    /\ ref_lines' = parse_references_block(markdown_text)
    /\ epc' = "lines"
    /\ UNCHANGED <<markdown_text, ref_entries, items, jsonl, extractions, besidesExtract>>

\* main(), line 527: items = build_reference_items(ref_entries)
BuildItems ==
    /\ epc = "entries"
    /\ items' = build_reference_items(ref_entries)
    /\ epc' = "items"
    /\ UNCHANGED <<markdown_text, ref_lines, ref_entries, jsonl, extractions, besidesExtract>>

\* ------------------------------------ extract_references.py: the Deduplicator
\* json.dumps(it, sort_keys=True): the pairs of the record in the order of
\* their keys
SortedKeys ==
    <<"archive_url", "author", "is_external", "publish_date", "retrieved_date",
      "scraped", "source", "title", "url">>
\* a key of title and url only
dumpsTitleUrl(it) == << <<"title", it.title>>, <<"url", it.url>> >>
dumps(it) ==
    LET present == SelectSeq(SortedKeys, LAMBDA k : k \in DOMAIN it)
    IN  [n \in 1..Len(present) |-> <<present[n], it[present[n]]>>]

\* key in seen
Seen(seen, key) == \E n \in 1..Len(seen) : seen[n] = key

\* lines 531-537, from the state (seen, deduped) on
RECURSIVE DedupFrom(_, _, _)
DedupFrom(its, seen, deduped) ==
    IF its = <<>> THEN deduped
    ELSE LET key == dumps(Head(its))
         IN  IF Seen(seen, key) THEN DedupFrom(Tail(its), seen, deduped)
             ELSE DedupFrom(Tail(its), Append(seen, key), Append(deduped, Head(its)))
Deduplicated(its) == DedupFrom(its, <<>>, <<>>)

\* main(), lines 529-541
Deduplicate ==
    /\ epc = "items"
    /\ items' = Deduplicated(items)
    /\ epc' = "deduped"
    /\ UNCHANGED <<markdown_text, ref_lines, ref_entries, jsonl, extractions, besidesExtract>>

\* entries of which some give the same record and some give records that
\* differ in an optional field only
TitleOnly == <<Link(ExampleTitle, "", ExampleUrl, TRUE)>>
SampleEntries ==
    { TitleOnly,
      <<Marker(<<"1.">>)>> \o TitleOnly,
      TitleOnly \o <<Link(<<"Archived">>, "", ArchiveLinkUrl, FALSE)>>,
      <<Text(<<"John", "Smith">>, "", FALSE), PubDate>> \o TitleOnly,
      <<Text(ExampleNews, "", TRUE)>> }
EntryLists == UNION { [1..n -> SampleEntries] : n \in 0..MaxEntries }

\* ------------------------------------------- extract_references.py: main()
\* d[k] = v
SetKey(d, k, v) == [x \in DOMAIN d \cup {k} |-> IF x = k THEN v ELSE d[x]]

\* lines 491-497: the lines written for the records
write_jsonl(its) ==
    [n \in 1..Len(its) |->
        json_dumps(IF "scraped" \in DOMAIN its[n] THEN its[n]
                   ELSE SetKey(its[n], "scraped", FALSE))]

\* the file taken as absent
existsNever(file) == FALSE
\* os.path.exists(jsonl_path)
exists(file) == file.exists

ScrapedCount(file) ==
    Cardinality({ n \in 1..Len(file.lines) : json_loads(file.lines[n]).scraped })

\* the documents the extraction step is run on: two entries under a
\* References heading, one bullet entry without heading, prose only
SampleDocs ==
    { << TextLine(0, <<Text(<<"References">>, "", FALSE)>>),
         TextLine(0, <<Marker(<<"*">>), Link(ExampleTitle, "", ExampleUrl, FALSE)>>),
         TextLine(0, <<>>),
         TextLine(0, <<Text(<<"John", "Smith">>, "", FALSE), PubDate,
                       Link(ExampleNews, "quoted", NewsUrl, TRUE)>>) >>,
      << TextLine(0, <<Marker(<<"*">>), Link(ExampleTitle, "", ExampleUrl, FALSE)>>) >>,
      << TextLine(0, <<Text(<<"John", "Smith", "Example", "News", "Example", "Title">>, "", TRUE)>>) >> }

\* main(), lines 500-523, on the document md: the page is fetched and the
\* file looked for; lines 525-541 are LocateBlock, GroupEntries, BuildItems
\* and Deduplicate
StartExtract(md) ==
    /\ epc = "idle"
    /\ Len(extractions) < MaxExtractions
    /\ markdown_text' = md
    /\ epc' = IF exists(jsonl) THEN "idle" ELSE "markdown"
    /\ extractions' = Append(extractions,
                             [existed |-> jsonl.exists, scraped |-> ScrapedCount(jsonl)])
    /\ UNCHANGED <<ref_lines, ref_entries, items, jsonl, besidesExtract>>

\* main(), line 542: write_jsonl(items, jsonl_path)
WriteJsonl ==
    /\ epc = "deduped"
    /\ jsonl' = [exists |-> TRUE, lines |-> write_jsonl(items)]
    /\ epc' = "idle"
    /\ UNCHANGED <<markdown_text, ref_lines, ref_entries, items, extractions, besidesExtract>>

\* fetch_reference_pages.py, lines 301-323: what the Fetch Orchestrator
\* writes into record n of the file for the outcome of its fetch
RecordOutcomes == {"accepted", "low_quality", "failed"}
Marked(ref, result) ==
    CASE result = "accepted" ->
            SetKey(SetKey(ref, "scraped", TRUE), "fetcher_used", "jina")
      [] result = "low_quality" ->
            SetKey(SetKey(SetKey(ref, "scraped", TRUE), "fetcher_used", "jina(low_quality)"),
                   "filter_reason", "empty_content")
      [] OTHER -> ref
FetchRecord(n, force, result) ==
    /\ epc = "idle"
    /\ jsonl.exists
    /\ n \in 1..Len(jsonl.lines)
    /\ LET loaded == load_references(jsonl.lines)
       IN  /\ loaded[n].scraped => force
           /\ jsonl' = [jsonl EXCEPT !.lines =
                           Serialize([loaded EXCEPT ![n] = Marked(@, result)])]
    /\ UNCHANGED <<markdown_text, ref_lines, ref_entries, items, extractions, epc, besidesExtract>>

\* ------------------------------------------- goliath.py: the engine-B client
\* What one requests.post of retrieve does: it raises (no connection, a
\* timeout), or it brings a response whose JSON has a result field, has none,
\* or is no JSON at all.
Posts == {"raises", "result", "no_result", "not_json"}

\* line 91, the text of the error being "all retry attempts failed"
AllFailed == [error |-> "all_retries_failed"]
NoResponse == [error |-> ""]

\* _handle_response, lines 93-130: it catches what it raises itself
handle_response(post) ==
    CASE post = "result" -> [success |-> TRUE, result |-> "content"]
      [] post = "no_result" -> [success |-> FALSE, error |-> "no_result_field"]
      [] OTHER -> [success |-> FALSE, error |-> "parse_failed"]

\* an error response retried as well
RetriesOnError(post) == post # "result"

\* retrieve, lines 79-89: the post that raised is the one followed by another
Retries(post) == post = "raises"

\* __call__, lines 143-161
call(d) ==
    IF "success" \in DOMAIN d /\ d.success
    THEN [success |-> TRUE, content |-> d.result]
    ELSE [success |-> FALSE, content |-> "",
          error |-> IF "error" \in DOMAIN d THEN d.error ELSE "Unknown error"]

\* try_goliath, lines 172-178: the error it hands back, "" standing for None
try_goliath(d) ==
    IF ~d.success \/ ("error" \in DOMAIN d /\ d.error # "")
    THEN IF "error" \in DOMAIN d THEN d.error ELSE "goliath_error"
    ELSE ""

\* fetch_with_order, lines 198-207: the engine-B steps of a record with an
\* archive_url, in order
GoliathSteps == <<"goliath_archive", "goliath_main">>

ClientIdle ==
    /\ max_retry = DEFAULT_GOLIATH_MAX_RETRY
    /\ attempt = 0
    /\ response_dict = NoResponse
    /\ gattempts = <<>>
    /\ posted = <<>>
    /\ gpc = "idle"

\* fetch_with_order, lines 209-214, comes to an engine-B step: try_goliath
\* calls g_tool(url), which calls retrieve
CallGoliath ==
    /\ gpc = "idle"
    /\ Len(gattempts) < Len(GoliathSteps)
    /\ IF gattempts = <<>> THEN TRUE ELSE ~gattempts[Len(gattempts)].success
    /\ attempt' = 0
    /\ posted' = <<>>
    /\ response_dict' = NoResponse
    /\ gpc' = "loop"
    /\ UNCHANGED <<max_retry, gattempts, besidesClient>>

\* retrieve, lines 60-89: one pass of the loop
Post(post) ==
    /\ gpc = "loop"
    /\ attempt < max_retry
    /\ posted' = Append(posted, post)
    /\ IF Retries(post)
       THEN /\ attempt' = attempt + 1
            /\ UNCHANGED <<response_dict, gpc>>
       ELSE /\ response_dict' = handle_response(post)
            /\ gpc' = "returned"
            /\ UNCHANGED attempt
    /\ UNCHANGED <<max_retry, gattempts, besidesClient>>

\* retrieve, line 91: the loop is over
GiveUp ==
    /\ gpc = "loop"
    /\ attempt >= max_retry
    /\ response_dict' = AllFailed
    /\ gpc' = "returned"
    /\ UNCHANGED <<max_retry, attempt, gattempts, posted, besidesClient>>

\* __call__, try_goliath and fetch_with_order, lines 215-233, with what
\* retrieve returned
RecordAttempt ==
    /\ gpc = "returned"
    /\ LET err == try_goliath(call(response_dict))
       IN  gattempts' = Append(gattempts,
                               [label |-> GoliathSteps[Len(gattempts) + 1],
                                engine |-> "goliath",
                                success |-> err = "",
                                error |-> err])
    /\ gpc' = "idle"
    /\ UNCHANGED <<max_retry, attempt, response_dict, posted, besidesClient>>

\* ----------------------------------------------------------- specification
StartArgs == 0..MaxRecords
EndArgs == {NoEnd} \cup {EndAt(v) : v \in 1..(MaxRecords + 1)}

OutsideIdle == ConcIdle /\ BalanceIdle /\ GateIdle /\ ExtractIdle /\ ClientIdle

Init == InitFetch(FreshStores \cup {DamagedStore}) /\ OutsideIdle

Next ==
    \/ \E force \in BOOLEAN, skip_exists \in BOOLEAN, record_attempts \in {FALSE},
          start_arg \in StartArgs, end_arg \in EndArgs :
            StartRun(force, skip_exists, record_attempts, start_arg, end_arg)
    \/ Finish
    \/ SkipNoUrl
    \/ SkipScraped
    \/ BeginRecord
    \/ \E body \in Bodies : EngineSucceeds(body)
    \/ EngineFails
    \/ ChainFailed
    \/ LowQualityRetry
    \/ LowQualityExhausted
    \/ Accept
    \/ SaveOpen
    \/ SaveWrite
    \/ SaveReplace

Spec == Init /\ [][Next]_vars

\* The same program, where a write may fail and the process may be killed.
NextCrash ==
    \/ Next
    \/ WriteFails
    \/ Interrupt

SpecCrash == Init /\ [][NextCrash]_vars

\* The same program with --record-attempts, over the whole store, on the
\* store whose first line is not JSON.
InitLog == InitFetch({DamagedStore}) /\ OutsideIdle

NextLog ==
    \/ \E force \in BOOLEAN : StartRun(force, TRUE, TRUE, 1, NoEnd)
    \/ Finish
    \/ SkipNoUrl
    \/ SkipScraped
    \/ BeginRecord
    \/ \E body \in Bodies : EngineSucceeds(body)
    \/ EngineFails
    \/ ChainFailed
    \/ LowQualityRetry
    \/ LowQualityExhausted
    \/ Accept
    \/ SaveOpen
    \/ SaveWrite
    \/ SaveReplace

SpecLog == InitLog /\ [][NextLog]_vars

\* The same program on the edited stores.
InitEdited == InitFetch(EditedStores) /\ OutsideIdle

SpecEdited == InitEdited /\ [][Next]_vars

\* Two invocations about to start on one of the stores; the store file is
\* inode 1.
InitConc ==
    /\ InitFetch({FreshStore(0)})
    /\ ClientIdle
    /\ \E lines \in FreshStores \cup {DamagedStore} :
          cfs = [store |-> 1, tmp |-> NoInode, data |-> <<lines>>]
    /\ cproc = [p \in Procs |-> NoProc]
    /\ BalanceIdle
    /\ GateIdle
    /\ ExtractIdle

NextConc ==
    \E p \in Procs :
        \/ CLoad(p)
        \/ CSkip(p)
        \/ CFailed(p)
        \/ CLowQuality(p)
        \/ CAccepted(p)
        \/ CSavePage(p)
        \/ COpen(p)
        \/ CClose(p)
        \/ CReplace(p)
        \/ CReplaceFails(p)
        \/ CFinish(p)

SpecConc == InitConc /\ [][NextConc]_vars

\* Threads of one process calling get_oss_config and get_embedding_config.
InitBalance ==
    /\ InitFetch({FreshStore(0)})
    /\ ClientIdle
    /\ ConcIdle
    /\ GateIdle
    /\ ExtractIdle
    /\ env \in [Which -> PortSettings]
    /\ counter = [w \in Which |-> 0]
    /\ lock = [w \in Which |-> NoLock]
    /\ thread = [t \in Threads |-> NoThread]
    /\ observed = [w \in Which |-> <<>>]

NextBalance ==
    \E t \in Threads :
        \/ \E w \in Which : Call(t, w)
        \/ Acquire(t)
        \/ Select(t)
        \/ Load(t)
        \/ Store(t)
        \/ Release(t)

SpecBalance == InitBalance /\ [][NextBalance]_vars

\* is_low_quality applied to each of the contents.
InitGate ==
    /\ InitFetch({FreshStore(0)})
    /\ ClientIdle
    /\ ConcIdle
    /\ BalanceIdle
    /\ ExtractIdle
    /\ content \in Contents
    /\ verdict = NoVerdict

SpecGate == InitGate /\ [][Judge]_vars

\* the Field Extractor, run on one entry
InitExtract ==
    /\ InitFetch({FreshStore(0)})
    /\ ClientIdle
    /\ ConcIdle
    /\ BalanceIdle
    /\ GateIdle
    /\ markdown_text = <<>>
    /\ ref_lines = <<>>
    /\ ref_entries \in { <<e>> : e \in Entries }
    /\ items = <<>>
    /\ jsonl = NoFile
    /\ extractions = <<>>
    /\ epc = "entries"

SpecExtract == InitExtract /\ [][BuildItems]_vars

\* the Entry Grouper, run on a list of lines
InitGroup ==
    /\ InitFetch({FreshStore(0)})
    /\ ClientIdle
    /\ ConcIdle
    /\ BalanceIdle
    /\ GateIdle
    /\ markdown_text = <<>>
    /\ ref_lines \in RefLineLists
    /\ ref_entries = <<>>
    /\ items = <<>>
    /\ jsonl = NoFile
    /\ extractions = <<>>
    /\ epc = "lines"

SpecGroup == InitGroup /\ [][GroupEntries]_vars

\* the Block Locator, run on a document
InitLocate ==
    /\ InitFetch({FreshStore(0)})
    /\ ClientIdle
    /\ ConcIdle
    /\ BalanceIdle
    /\ GateIdle
    /\ markdown_text \in Documents
    /\ ref_lines = <<>>
    /\ ref_entries = <<>>
    /\ items = <<>>
    /\ jsonl = NoFile
    /\ extractions = <<>>
    /\ epc = "markdown"

SpecLocate == InitLocate /\ [][LocateBlock]_vars

\* the Field Extractor and the Deduplicator, run on a list of entries
InitDedup ==
    /\ InitFetch({FreshStore(0)})
    /\ ClientIdle
    /\ ConcIdle
    /\ BalanceIdle
    /\ GateIdle
    /\ markdown_text = <<>>
    /\ ref_lines = <<>>
    /\ ref_entries \in EntryLists
    /\ items = <<>>
    /\ jsonl = NoFile
    /\ extractions = <<>>
    /\ epc = "entries"

SpecDedup == InitDedup /\ [][BuildItems \/ Deduplicate]_vars

\* the extraction step run again and again on a directory that is empty at
\* first, the Fetch Orchestrator working on the file in between
InitRerun ==
    /\ InitFetch({FreshStore(0)})
    /\ OutsideIdle

NextRerun ==
    \/ \E md \in SampleDocs : StartExtract(md)
    \/ LocateBlock
    \/ GroupEntries
    \/ BuildItems
    \/ Deduplicate
    \/ WriteJsonl
    \/ \E n \in 1..MaxRecords, force \in BOOLEAN, result \in RecordOutcomes :
          FetchRecord(n, force, result)

SpecRerun == InitRerun /\ [][NextRerun]_vars

\* one chain of fetch_with_order calling a GoliathTool built with each max_retry
InitClient ==
    /\ InitFetch({FreshStore(0)})
    /\ ConcIdle
    /\ BalanceIdle
    /\ GateIdle
    /\ ExtractIdle
    /\ max_retry \in 0..MaxRetries
    /\ attempt = 0
    /\ response_dict = NoResponse
    /\ gattempts = <<>>
    /\ posted = <<>>
    /\ gpc = "idle"

NextClient ==
    \/ CallGoliath
    \/ \E post \in Posts : Post(post)
    \/ GiveUp
    \/ RecordAttempt

SpecClient == InitClient /\ [][NextClient]_vars

\* ================================================================== claims
\* the list refs as this invocation loaded it
RunRefs == load_references(runStore)
\* the records this invocation has processed (not skipped) so far
Processed == { i \in 1..MaxRecords : outcome[i].res # "none" }
Saving == pc \in {"save", "write"}

\* ---------------------------------------------------------------------- C1
\* C1: an invocation without force over a range in which every record is
\* already scraped calls no engine and leaves the store file as it was.
AllScrapedNoForce ==
    /\ pc # "idle"
    /\ ~args.force
    /\ \A i \in start..end : RunRefs[i].scraped = TRUE

C1_SkipIsNoOp == AllScrapedNoForce => (~runCalls /\ store = runStore /\ Processed = {})

\* such an invocation over a non-empty range has gone through the whole range
C1_Witness == AllScrapedNoForce /\ start <= end /\ pc = "for" /\ idx > end

\* ---------------------------------------------------------------------- C2
\* C2: a record rejected by the gate in all three rounds ends with scraped
\* true, fetcher_used the succeeding step's label with the low-quality suffix,
\* filter_reason the gate's non-empty reason, and no page file written.
LowQualityFields(r, o) ==
    /\ r.scraped = TRUE
    /\ r.fetcher_used = <<o.used, "(low_quality)">>
    /\ o.used \in {"jina(archive)", "goliath(archive)", "jina", "goliath"}
    /\ r.filter_reason = o.reason
    /\ o.reason # <<>>

C2_LowQualityMarked ==
    \A i \in 1..MaxRecords : outcome[i].res = "lowq" =>
        /\ outcome[i].walks = max_filter_retry
        /\ pc # "idle" => LowQualityFields(refs[i], outcome[i])
        /\ i \in persisted => LowQualityFields(store[i].obj, outcome[i])
        /\ (Saving /\ idx = i) => files = recFiles

C2_Witness ==
    \E i \in persisted : outcome[i].res = "lowq" /\ outcome[i].reason = <<"line_count<", "10">>

\* ---------------------------------------------------------------------- C3
\* C3: the attempts of a walk follow the chain [A(archive), B(archive),
\* A(url), B(url)] when the record has an archive_url and [A(url), B(url)]
\* when it has none (A is jina, B is goliath).
Pair(engine, url) == [engine |-> engine, url |-> url]
ChainOf(ref) ==
    IF ref.archive_url # NoUrl
    THEN << Pair("jina", ref.archive_url), Pair("goliath", ref.archive_url),
            Pair("jina", ref.url), Pair("goliath", ref.url) >>
    ELSE << Pair("jina", ref.url), Pair("goliath", ref.url) >>

LabelOf(att) ==
    CASE att.engine = "jina" /\ att.url.k = "archive" -> "jina(archive)"
      [] att.engine = "goliath" /\ att.url.k = "archive" -> "goliath(archive)"
      [] att.engine = "jina" /\ att.url.k = "url" -> "jina"
      [] att.engine = "goliath" /\ att.url.k = "url" -> "goliath"

C4_FirstSuccessStops ==
    pc \in {"walk", "gate"} =>
        /\ \A n \in 1..(Len(attempts) - 1) : ~attempts[n].success
        /\ pc = "walk" => \A n \in 1..Len(attempts) : ~attempts[n].success
        /\ (pc = "gate" /\ ret.norm # NoNorm) =>
              /\ attempts[Len(attempts)].success
              /\ ret.used = LabelOf(attempts[Len(attempts)])
              /\ ret.norm.content.url = attempts[Len(attempts)].url
        /\ (pc = "gate" /\ ret.norm = NoNorm) =>
              /\ Len(attempts) = Len(ChainOf(refs[idx]))
              /\ ~attempts[Len(attempts)].success

\* a walk that succeeded at its last step after three failures
C4_Witness ==
    /\ pc = "gate"
    /\ ret.norm # NoNorm
    /\ Len(attempts) = 4
    /\ ret.used = "goliath"

C6_AcceptedHasOwnPage ==
    \A i \in 1..MaxRecords : (outcome[i].res = "accepted" /\ pc # "idle") =>
        /\ refs[i].scraped = TRUE
        /\ refs[i].fetcher_used = <<outcome[i].used>>
        /\ slugify(refs[i].title) \in DOMAIN files
        /\ files[slugify(refs[i].title)] = Page(refs[i].title, outcome[i].norm.content)

\* ---------------------------------------------------------------------- C7
\* C7: a record is processed in at most 3 walks of the chain, exactly 3 when
\* every walk yields low-quality content; each further walk follows one
\* rejection by the gate and starts at the first step; at most 12 engine calls
\* are made for a record with an archive_url and at most 6 without.
C7_BoundedRounds ==
    /\ pc \in {"walk", "gate"} =>
          /\ walks >= 1 /\ walks <= 3
          /\ walks = filter_attempts + 1
          /\ Len(attempts) <= Len(ChainOf(refs[idx]))
          /\ recCalls <= (IF refs[idx].archive_url # NoUrl THEN 12 ELSE 6)
          /\ recCalls <= (walks - 1) * Len(ChainOf(refs[idx])) + Len(attempts)
          /\ recCalls >= (walks - 1) + Len(attempts)
    /\ \A i \in 1..MaxRecords : outcome[i].res = "lowq" => outcome[i].walks = 3

\* the twelfth call for a record with an archive_url
C7_Witness ==
    /\ pc = "gate"
    /\ refs[idx].archive_url # NoUrl
    /\ recCalls = 12
    /\ walks = 3

\* ---------------------------------------------------------------------- C8
\* C8: for every processed record all its engine calls happen first, then the
\* whole store is rewritten, and only then the next record's first call is
\* made.
C8_SequentialPersist ==
    /\ pc \in {"walk", "gate"} =>
          /\ outcome[idx].res = "none"
          /\ idx \notin persisted
          /\ \A i \in Processed : i \in persisted /\ i < idx
          /\ Processed # {} => store = Serialize(refs)
    /\ \A i \in persisted : outcome[i].res # "none"
    /\ Saving => (recCalls = 0 /\ outcome[idx].res # "none" /\ idx \notin persisted)

\* record 2 is being fetched after record 1 was processed and persisted
C8_Witness ==
    /\ pc = "walk"
    /\ idx = 2
    /\ recCalls = 1
    /\ outcome[1].res = "accepted"
    /\ store[1].obj.scraped = TRUE

\* ---------------------------------------------------------------------- C9
\* C9 as stated: whenever an invocation has ended, by an interruption at any
\* point or at the end of the range, every record it fetched and saved as a
\* page file is recorded with scraped true in the store.
SavedPage(i) ==
    /\ outcome[i].res = "accepted"
    /\ slugify(store[i].obj.title) \in DOMAIN files
    /\ files[slugify(store[i].obj.title)] =
          Page(store[i].obj.title, outcome[i].norm.content)

C9_Original ==
    pc = "idle" => \A i \in 1..MaxRecords : SavedPage(i) => store[i].obj.scraped = TRUE

\* C9 amended: at every point at which an invocation may be interrupted,
\* every accepted record whose rewrite of the store has completed is recorded
\* with scraped true and its fetcher_used, so an invocation without force
\* skips it; a record accepted whose rewrite has not completed is in the store
\* as it was when the invocation started.
C9_PersistedSurvives ==
    \A i \in 1..MaxRecords : outcome[i].res = "accepted" =>
        IF i \in persisted
        THEN /\ store[i].obj.scraped = TRUE
             /\ store[i].obj.fetcher_used = <<outcome[i].used>>
             /\ store[i].obj.url # NoUrl
        ELSE store[i] = runStore[i]

\* interrupted while record 2, accepted and saved as a page, was being
\* written back: record 1 is scraped in the store, record 2 is not
C9_Witness ==
    /\ pc = "idle"
    /\ 1 \in persisted /\ outcome[1].res = "accepted" /\ store[1].obj.scraped = TRUE
    /\ 2 \notin persisted /\ SavedPage(2) /\ store[2].obj.scraped = FALSE

\* --------------------------------------------------------------------- C10
\* C10: in a single invocation the store file always holds a complete
\* serialization of the record list: a step changes it only by replacing it
\* with the serialization of the whole list refs, also when the process is
\* killed or a write fails.
C10_AtomicRewrite ==
    [][ store' # store =>
          /\ store' = Serialize(refs)
          /\ Len(store') = Len(load_references(runStore)) ]_vars

\* killed in the middle of a rewrite: the temporary file is partial, the
\* store file is whole
C10_Witness ==
    /\ pc = "idle"
    /\ tmp.exists
    /\ Len(tmp.lines) = 1
    /\ Len(store) = MaxRecords
    /\ \A n \in 1..Len(store) : store[n].form = "json" /\ store[n].obj.kind = "ref"

\* --------------------------------------------------------------------- C11
\* C11: when two invocations over disjoint ranges of the same store have both
\* finished, every record either of them marked scraped is scraped in the
\* store file, with the fetcher_used that invocation gave it.
C11_NoLostUpdate ==
    (\A p \in Procs : cproc[p].pc = "done") =>
        \A p \in Procs : \A i \in cproc[p].marked :
            LET r == load_references(StoreLines)
            IN  /\ i <= Len(r)
                /\ r[i].scraped = TRUE
                /\ r[i].fetcher_used = cproc[p].refs[i].fetcher_used

\* --------------------------------------------------------------------- C12
\* C12: every rewrite of the store keeps the number of lines and their order:
\* the record at line n before the rewrite is the record at line n after it,
\* and only scraped, fetcher_used, filter_reason and attempt_log change; this
\* for stores with blank or malformed lines too.
SameRecord(a, b) ==
    /\ a.kind = b.kind
    /\ a.title = b.title
    /\ a.url = b.url
    /\ a.archive_url = b.archive_url
    /\ a.raw = b.raw

C12_LinesStable ==
    [][ store' # store =>
          /\ Len(store') = Len(store)
          /\ \A n \in 1..Len(store) :
                SameRecord(json_loads(store'[n]), json_loads(store[n])) ]_vars

\* --------------------------------------------------------------------- C13
\* C13: in every state of the store file reached from a freshly extracted
\* store by any runs, interrupted or not, a record with scraped true has a
\* page file under the slug of its title or a filter_reason; and an
\* invocation without force that loaded it as scraped never processes it.
C13_ScrapedMeansProcessed ==
    \A n \in 1..Len(store) :
        LET r == json_loads(store[n])
        IN  /\ r.scraped = TRUE =>
                  (slugify(r.title) \in DOMAIN files \/ r.filter_reason # <<>>)
            /\ (pc # "idle" /\ ~args.force /\ RunRefs[n].scraped = TRUE) =>
                  /\ outcome[n].res = "none"
                  /\ pc \in {"walk", "gate", "save", "write"} => idx # n
                  /\ store[n] = runStore[n]

\* a second invocation, without force, has passed over a record that has a
\* filter_reason and no page and a record that has a page
C13_Witness ==
    /\ runs = 2 /\ pc = "for" /\ ~args.force
    /\ start = 1 /\ idx > MaxRecords
    /\ Processed = {}
    /\ store[1].obj.scraped = TRUE /\ store[1].obj.filter_reason # <<>>
    /\ slugify(store[1].obj.title) \notin DOMAIN files
    /\ store[2].obj.scraped = TRUE /\ store[2].obj.filter_reason = <<>>
    /\ slugify(store[2].obj.title) \in DOMAIN files

\* --------------------------------------------------------------------- C14
\* C14: under any interleaving of threads calling get_oss_config (and
\* get_embedding_config), the calls read the counter values 0, 1, 2, ... one
\* each, the counter grows by exactly one per call, and any N consecutive
\* reads, N the number of configured ports, select every port once.
C14_RoundRobin ==
    \A w \in Which :
        LET N == Len(ports_list(env[w]))
            obs == observed[w]
        IN  /\ \A n \in 1..Len(obs) : obs[n].value = n - 1
            /\ lock[w] = NoLock => counter[w] = Len(obs)
            /\ lock[w] # NoLock => counter[w] \in {Len(obs), Len(obs) - 1}
            /\ \A k \in 0..(Len(obs) - N) :
                  \A slot \in 0..(N - 1) :
                      Cardinality({ j \in 1..N : obs[k + j].slot = slot }) = 1
            /\ \A t \in Threads :
                  (thread[t].which = w /\ thread[t].pc \in {"load", "store", "exit"}) =>
                      \E n \in 1..Len(obs) :
                          /\ obs[n].by = t
                          /\ \A m \in (n + 1)..Len(obs) : obs[m].by # t
                          /\ thread[t].port = ports_list(env[w])[obs[n].slot + 1]

\* three ports: four calls were made by two threads in turn, and the fourth
\* selected the first port again
C14_Witness ==
    /\ Len(ports_list(env["oss"])) = 3
    /\ Len(observed["oss"]) = 4
    /\ observed["oss"][3].by # observed["oss"][4].by
    /\ observed["oss"][4].slot = 0
    /\ thread[observed["oss"][4].by].port = <<"7">>
    /\ \E t \in Threads : thread[t].which = "oss" /\ thread[t].pc = "with"

\* --------------------------------------------------------------------- C15
\* C15: a line of the store that is not JSON is passed over: it is loaded as
\* an error dict at its own index, no engine is called for it, and the other
\* records are processed at the 1-based index of their line.
NoBlankLine(lines) == \A n \in 1..Len(lines) : lines[n].form # "blank"

NoUrlBefore(i) == { n \in start..(i - 1) : RunRefs[n].url = NoUrl }

C16_NoUrlSkipped ==
    pc # "idle" =>
        /\ counters.failed >= Cardinality(NoUrlBefore(idx))
        /\ counters.total >= Cardinality(NoUrlBefore(idx))
        /\ \A n \in 1..Len(refs) : RunRefs[n].url = NoUrl =>
              /\ refs[n] = RunRefs[n]
              /\ outcome[n].res = "none"
              /\ pc \in {"walk", "gate", "save", "write"} => idx # n
              /\ load_references(store)[n] = RunRefs[n]

\* the first record has an archive_url and no url; it was counted and the
\* second record is being fetched
C16_Witness ==
    /\ pc = "walk"
    /\ idx = 2
    /\ refs[1].kind = "ref" /\ refs[1].url = NoUrl /\ refs[1].archive_url # NoUrl
    /\ counters = [total |-> 2, success |-> 0, failed |-> 1]
    /\ recCalls = 1

\* --------------------------------------------------------------------- C17
\* C17: is_low_quality rejects a content exactly when it is empty, or holds
\* one of the signatures, or has fewer than 10 lines that are not blank; the
\* reason it returns is non-empty exactly when it rejects.
HasSignature(c) ==
    \E n \in 1..Len(c) : \E k \in 1..Len(c[n]) : \E p \in 1..Len(patterns) :
        c[n][k] = patterns[p]

NonBlankLines(c) == { n \in 1..Len(c) : \E k \in 1..Len(c[n]) : c[n][k] \notin Whitespace }

C17_GateExact ==
    verdict # NoVerdict =>
        /\ verdict.filt = (content = <<>> \/ HasSignature(content)
                            \/ Cardinality(NonBlankLines(content)) < 10)
        /\ (verdict.reason # <<>>) = verdict.filt

\* exactly 10 lines of text, followed by blank lines, accepted
C17_Witness ==
    /\ Cardinality(NonBlankLines(content)) = 10
    /\ Len(content) = 12
    /\ verdict = [filt |-> FALSE, reason |-> <<>>]

\* --------------------------------------------------------------------- C18
\* C18: with attempt recording enabled, the attempt_log of a processed
\* record lists, in the order they were made, exactly the engine calls made
\* for it in this invocation over all rounds, each with its engine, url,
\* success flag and error.
CallsOf(log) ==
    [ n \in 1..Len(log) |->
        [ engine |-> log[n].engine, url |-> log[n].url,
          success |-> log[n].success, error |-> log[n].error ] ]

C18_AttemptLogComplete ==
    /\ pc \in {"walk", "gate"} =>
          CallsOf(aggregate_attempt_log) \o CallsOf(attempts) = calls
    /\ Saving =>
          /\ outcome[idx].res # "none"
          /\ calls # <<>>
          /\ CallsOf(refs[idx].attempt_log) = calls
    /\ pc # "idle" =>
          \A i \in persisted : store[i].obj.attempt_log = refs[i].attempt_log

\* twelve calls in three rounds, each round succeeding at its last step with
\* low-quality content: the log has the twelve
C18_Witness ==
    /\ Saving
    /\ outcome[idx].res = "lowq"
    /\ Len(calls) = 12
    /\ Len(refs[idx].attempt_log) = 12
    /\ \A n \in 1..12 : refs[idx].attempt_log[n].success = (n % 4 = 0)
    /\ refs[idx].attempt_log[12].round = 3

\* --------------------------------------------------------------------- C19
\* C19: the range of an invocation starts at 1 or later and ends at the
\* number of records or earlier; engines are called only for records of the
\* range, and a record outside the range is, in memory and in every rewrite
\* of the store, as it was loaded.
InRange(n) == start <= n /\ n <= end

C19_RangeOnly ==
    pc # "idle" =>
        /\ start >= 1
        /\ end <= Len(refs)
        /\ \A i \in Processed : InRange(i)
        /\ pc \in {"walk", "gate", "save", "write"} => InRange(idx)
        /\ \A n \in 1..Len(refs) : ~InRange(n) =>
              /\ refs[n] = RunRefs[n]
              /\ load_references(store)[n] = RunRefs[n]
              /\ n \notin persisted

\* a run over line 2 only has accepted and written back record 2; record 1,
\* not scraped, is as it was
C19_Witness ==
    /\ pc = "for"
    /\ start = 2 /\ end = 2 /\ idx = 3
    /\ outcome[2].res = "accepted"
    /\ 2 \in persisted
    /\ store[2].obj.scraped = TRUE
    /\ store[1] = runStore[1]
    /\ store[1].obj.scraped = FALSE /\ store[1].obj.url # NoUrl

\* C20: for the entry
\*   1. John Smith. [Example Title](https://example.com/a) (January 5, 2020).
\*   Example News. Retrieved March 1, 2021.
\* the Field Extractor returns one record with title "Example Title", url
\* "https://example.com/a", author "John Smith", source "Example News",
\* publish_date "(January 5, 2020)", retrieved_date "Retrieved March 1, 2021."
\* and is_external true.
ExampleEntry ==
    Entry(<<Marker(<<"1.">>)>>, <<>>, <<Text(<<"John", "Smith">>, "", TRUE)>>, "after",
          <<Link(ExampleTitle, "", ExampleUrl, FALSE)>>, <<Text(ExampleNews, "", TRUE)>>,
          <<>>, <<Ret(<<"March", "1,", "2021">>, TRUE)>>)
ExampleRecord ==
    [title |-> "Example Title", url |-> "https://example.com/a", author |-> "John Smith",
     source |-> "Example News", publish_date |-> "(January 5, 2020)",
     retrieved_date |-> "Retrieved March 1, 2021.", is_external |-> TRUE]
C20_ExampleRecord ==
    (epc = "items" /\ ref_entries = <<ExampleEntry>>) => items = <<ExampleRecord>>

\* the entry the Field Extractor was run on
TheEntry == ref_entries[1]

\* C21: for every entry that contains no Markdown [text](url) link, the Field
\* Extractor returns no record.
Linkless(e) == \A n \in 1..Len(e) : e[n].k \notin {"link", "caret"}
C21_NoLinkNoRecord ==
    (epc = "items" /\ Linkless(TheEntry)) => items = <<>>
C21_Witness ==
    /\ epc = "items"
    /\ Linkless(TheEntry)
    /\ \E n \in 1..Len(TheEntry) : TheEntry[n].k = "text"
    /\ items = <<>>

\* C22: for every entry whose content links all point at the source
\* document's own domain, the Field Extractor returns no record.
OwnDomainOnly(e) ==
    \A n \in 1..Len(Cleaned(e)) :
        IsContentLink(Cleaned(e)[n]) => IsWikipedia(Cleaned(e)[n].url)
C22_OwnDomainNoRecord ==
    (epc = "items" /\ OwnDomainOnly(TheEntry)) => items = <<>>
C22_Witness ==
    /\ epc = "items"
    /\ OwnDomainOnly(TheEntry)
    /\ content_links(Cleaned(TheEntry)) # <<>>
    /\ items = <<>>

\* C24: in every record the Field Extractor emits, the url is not the url of
\* a link whose text is "Archived"; that url appears only in archive_url.
ArchivedUrls(e) == { UrlStr(e[n].url) : n \in { m \in 1..Len(e) : IsLink(e[m]) /\ IsArchived(e[m]) } }
C24_ArchivedNeverPrimary ==
    epc = "items" => \A i \in 1..Len(items) : items[i].url \notin ArchivedUrls(TheEntry)

\* C25: every record the Field Extractor emits has a non-empty title and a
\* non-empty url.
C25_TitleAndUrl ==
    epc = "items" => \A i \in 1..Len(items) : items[i].title # "" /\ items[i].url # ""

\* C28: the Entry Grouper partitions the non-blank lines into entries without
\* loss or reordering: a line with a leading marker starts an entry, a blank
\* line closes the current entry without starting one, any other line is
\* appended to the current entry, the last buffer is flushed at the end, and
\* no entry is empty.
IsBlank(ln) == strip(ln) = <<>>
\* the lines at which an entry begins
Opens(lines) ==
    { i \in 1..Len(lines) :
        /\ ~IsBlank(lines[i])
        /\ (StartsEntry(lines[i]) \/ i = 1 \/ IsBlank(lines[i - 1])) }
\* the last line of the entry that begins at line i
Close(lines, i) ==
    CHOOSE j \in i..Len(lines) :
        /\ \A k \in (i + 1)..j : ~IsBlank(lines[k]) /\ ~StartsEntry(lines[k])
        /\ (j = Len(lines) \/ IsBlank(lines[j + 1]) \/ StartsEntry(lines[j + 1]))
EntryAt(lines, i) == merged([k \in 1..(Close(lines, i) - i + 1) |-> strip(lines[i + k - 1])])
Partition(lines) ==
    [n \in 1..Cardinality(Opens(lines)) |-> EntryAt(lines, Ascending(Opens(lines))[n])]
Stripped(lines) == [n \in 1..Len(lines) |-> strip(lines[n])]
C28_GroupPartition ==
    epc = "entries" =>
        /\ ref_entries = Partition(ref_lines)
        /\ merged(ref_entries) = merged(Stripped(ref_lines))
        /\ \A n \in 1..Len(ref_entries) : ref_entries[n] # <<>>
C28_Witness ==
    /\ epc = "entries"
    /\ Len(ref_entries) = 2
    /\ \E i \in 2..Len(ref_lines) :
          /\ ~IsBlank(ref_lines[i]) /\ ~StartsEntry(ref_lines[i])
          /\ ~IsBlank(ref_lines[i - 1])
    /\ C28_GroupPartition

\* C27: whenever the References, Bibliography and numbered-list rules
\* together collected no lines, also when a References or Bibliography
\* heading was found with nothing collected under it, the Block Locator
\* returns the lines the backward scan from the end of the document collects,
\* in document order.
C27_FallbackWhenEmpty ==
    (epc = "lines" /\ RulesCollected(markdown_text) = <<>>)
        => ref_lines = BackwardScan(markdown_text, Len(markdown_text))

\* C23: the Deduplicator keeps the first occurrence of each record and the
\* relative order of the kept records, two records being duplicates exactly
\* when they have the same keys with the same values; applied to its own
\* output it returns the same list.
Extractions == build_reference_items(ref_entries)
FirstOccurrences(its) ==
    { i \in 1..Len(its) : \A j \in 1..(i - 1) : its[j] # its[i] }
KeptInOrder(its) ==
    [n \in 1..Cardinality(FirstOccurrences(its)) |-> its[Ascending(FirstOccurrences(its))[n]]]
C23_Deduplicator ==
    epc = "deduped" =>
        /\ items = KeptInOrder(Extractions)
        /\ Deduplicated(items) = items
C23_Witness ==
    /\ epc = "deduped"
    /\ Len(Extractions) = 3
    /\ Len(items) = 2
    /\ DOMAIN items[1] # DOMAIN items[2]
    /\ items[1].title = items[2].title /\ items[1].url = items[2].url
    /\ C23_Deduplicator

\* C26: running the extraction step again when the CitationStore exists
\* leaves the store as it is: no record is created anew, added, removed or
\* reordered and no scraped, fetcher_used or filter_reason value is reset; a
\* record gets scraped = false only when the store is first written.
ScrapedAt(file, n) == n <= Len(file.lines) /\ json_loads(file.lines[n]).scraped
C26_RerunLeavesStore ==
    [][ /\ (jsonl.exists /\ (epc # "idle" \/ Len(extractions') > Len(extractions)))
              => (jsonl' = jsonl /\ epc' = "idle")
        /\ \A n \in 1..Len(jsonl'.lines) :
              (~ScrapedAt(jsonl', n) /\ (n > Len(jsonl.lines) \/ ScrapedAt(jsonl, n)))
                  => ~jsonl.exists ]_vars
C26_Witness ==
    /\ \E i \in 2..Len(extractions) : extractions[i].existed /\ extractions[i].scraped > 0
    /\ \E n \in 1..Len(jsonl.lines) :
          /\ ScrapedAt(jsonl, n)
          /\ "filter_reason" \in DOMAIN json_loads(jsonl.lines[n])


\* C29: one call of GoliathTool.retrieve makes at most max_retry requests; a
\* request that does not raise ends the call with its handled response, be
\* it an error response; only a request that raised is followed by another;
\* when max_retry requests have raised the call returns the error result,
\* which fetch_with_order records as one failed attempt.
AllRaised == \A i \in 1..Len(posted) : posted[i] = "raises"
C29_BoundedRetries ==
    /\ [](/\ Len(posted) <= max_retry
          /\ \A i \in 1..(Len(posted) - 1) : posted[i] = "raises"
          /\ gpc = "loop" => AllRaised
          /\ gpc = "returned" =>
                IF AllRaised
                THEN Len(posted) = max_retry /\ response_dict = AllFailed
                ELSE response_dict = handle_response(posted[Len(posted)]))
    /\ [][gpc = "returned" =>
            /\ Len(gattempts') = Len(gattempts) + 1
            /\ SubSeq(gattempts', 1, Len(gattempts)) = gattempts
            /\ AllRaised => /\ ~gattempts'[Len(gattempts')].success
                            /\ gattempts'[Len(gattempts')].error = AllFailed.error]_vars
C29_Witness ==
    /\ max_retry >= 2
    /\ gpc = "idle"
    /\ Len(posted) = max_retry
    /\ AllRaised
    /\ Len(gattempts) = 2
    /\ ~gattempts[2].success
    /\ gattempts[1].error = "no_result_field"

\* C30: in every state of the store file reached by invocations of the Fetch
\* Orchestrator, with or without force, from a freshly extracted store, a
\* record has a filter_reason exactly when its fetcher_used ends with the
\* low-quality suffix: a record last accepted by the Quality Gate has no
\* filter_reason left from an earlier invocation.
EndsLowQuality(used) ==
    used # <<>> /\ used[Len(used)] \in {"(low_quality)", "low_quality"}
C30_ReasonIffLowQuality ==
    \A n \in 1..Len(store) :
        (store[n].form = "json" /\ store[n].obj.kind = "ref") =>
            (store[n].obj.filter_reason # <<>> <=> EndsLowQuality(store[n].obj.fetcher_used))

====
